---------------------------- MODULE Spec2Model ----------------------------
(***************************************************************************)
(* Model of the Cipher keystore of monedero-mesh (cipher/src/cipher.rs):   *)
(* the persisted crypto-* records, the in-memory AEAD table and pairing    *)
(* map, and the operations new, set_pairing, create_common_topic,          *)
(* set_settlement, delete_session and reset.                               *)
(***************************************************************************)
EXTENDS Integers, Sequences, FiniteSets, TLC

(* ------------------------------ bounds -------------------------------- *)
NumPairings == 2
NumPeers == 2
MaxNow == 1

(* --------------------------- value domains ---------------------------- *)
\* Option<T>: None is the empty tuple, Some(v) the one-element tuple.
None == <<>>
Some(v) == <<v>>
IsSome(o) == o # <<>>
Unwrap(o) == o[1]

\* 32-byte X25519 scalars: pairing secrets are powers of 2, the peers'
\* secrets powers of 3, so that every Diffie-Hellman product is distinct.
PairingKeys == {2 ^ i : i \in 1..NumPairings}
PeerKeys == {3 ^ j : j \in 1..NumPeers}

\* PublicKey::from(&StaticSecret): the public point of a scalar.
PublicKey(secret) == [point |-> secret]

\* StaticSecret::diffie_hellman: commutative in the two scalars.
DiffieHellman(static_key, public_key) == static_key * public_key.point

\* Hkdf::<Sha256>::new(None, ikm).expand(&[], okm): an injective key expansion.
HkdfExpand(shared_secret) == 1000 + shared_secret

\* Sha256::digest(key) as a Topic.
Sha256Topic(key) == 100000 + key

\* HEXLOWER_PERMISSIVE.encode of a 32-byte public key, and two malformed
\* controller keys: one that is not hex, one that decodes to 31 bytes.
HexEncode(pk) == [hex |-> TRUE, len |-> 32, point |-> pk.point]
NotHex == [hex |-> FALSE, len |-> 0, point |-> 0]
ShortHex == [hex |-> TRUE, len |-> 31, point |-> 3]
ControllerPks == {HexEncode(PublicKey(s)) : s \in PeerKeys} \cup {NotHex, ShortHex}

\* Pairing: topic = SHA-256(sym_key).
Pairings == {[topic |-> Sha256Topic(k), sym_key |-> k] : k \in PairingKeys}

\* derive_sym_key: Ok carries (topic, expanded_key).
\* derive_sym_key whose topic also hashes the static key of the caller.
derive_sym_key_keyed(static_key, controller_pk) ==
    IF ~controller_pk.hex THEN [err |-> "DecodeError", topic |-> 0, key |-> 0]
    ELSE IF controller_pk.len # 32 THEN [err |-> "InvalidKeyLength", topic |-> 0, key |-> 0]
    ELSE LET expanded_key == HkdfExpand(DiffieHellman(static_key, [point |-> controller_pk.point]))
         IN [err |-> "Ok", topic |-> Sha256Topic(expanded_key + static_key), key |-> expanded_key]

derive_sym_key(static_key, controller_pk) ==
    IF ~controller_pk.hex THEN [err |-> "DecodeError", topic |-> 0, key |-> 0]
    ELSE IF controller_pk.len # 32 THEN [err |-> "InvalidKeyLength", topic |-> 0, key |-> 0]
    ELSE LET public_key == [point |-> controller_pk.point]
             shared_secret == DiffieHellman(static_key, public_key)
             expanded_key == HkdfExpand(shared_secret)
         IN [err |-> "Ok", topic |-> Sha256Topic(expanded_key), key |-> expanded_key]

PairingTopics == {p.topic : p \in Pairings}
SessionTopics ==
    {derive_sym_key(k, HexEncode(PublicKey(s))).topic : k \in PairingKeys, s \in PeerKeys}
Topics == PairingTopics \cup SessionTopics

\* SessionSettled, reduced to the fields the keystore reads.
Expiries == 0..MaxNow
SessionSettled(t, e) == [topic |-> t, expiry |-> e]

(* ------------------------------- state -------------------------------- *)
VARIABLES
    storage,   \* the KvStorage: the crypto-* records
    ciphers,   \* Cipher.ciphers: topic -> AEAD key
    pairing,   \* Cipher.pairing: topic -> Pairing
    now,       \* chrono::Utc::now().timestamp()
    call,      \* the last call made on the Cipher and what it returned
    del,       \* the position of a delete_session in progress
    mailbox,   \* RequestHandlerActor's mailbox: the RpcRequests not yet handled
    router,    \* the position of RequestHandlerActor's RpcRequest handler
    received,  \* the inbound RpcRequests in arrival order; a request's id is its index
    tasks,     \* the tokio tasks the router spawned, each with its position
    managers,  \* RequestHandlerActor.pair_managers: topic -> Address<PairingManager>
    mgr_mailbox, \* each PairingManager's mailbox
    mgr_log,   \* per topic, the ids of the requests in the order the manager got them
    transport, \* TransportActor's mailbox: the responses not yet accepted
    published, \* the responses TransportActor has accepted, in order
    relay_subs, \* the topics the relay client is subscribed to
    registering, \* the session topic a register_pk in progress is about to subscribe
    wallet,    \* the position and the locals of the wallet's send_settlement task
    inflight,  \* the wc_sessionSettle request published and not yet answered
    installed, \* the SessionSettled last installed in the session registry
    waiter,    \* the pending waiter parked for a pairing topic and what it got
    parked     \* the outbound requests awaiting their response: (topic, id) keys

cipher_vars == <<storage, ciphers, pairing, now, call, del>>
router_vars == <<mailbox, router, received, tasks, managers, mgr_mailbox, mgr_log,
                 transport, published>>
manager_vars == <<relay_subs, registering>>
wallet_vars == <<wallet, inflight, installed, waiter>>
transport_vars == <<parked>>
actor_vars == <<router_vars, manager_vars, wallet_vars, transport_vars>>
vars == <<cipher_vars, actor_vars>>

\* The topics inbound requests arrive on.
RouterTopics == PairingTopics

\* Wallet::new: no settlement task, no waiter.
WalletIdle == [pc |-> "idle", proposer |-> <<>>, public_key |-> <<>>, topic |-> 0,
               settled |-> <<>>, request |-> <<>>]
WalletInit ==
    /\ wallet = WalletIdle
    /\ inflight = <<>>
    /\ installed = <<>>
    /\ waiter = <<>>

\* RequestHandlerActor::new: no manager registered, nothing in flight.
RouterInit ==
    /\ mailbox = <<>>
    /\ router = [pc |-> "idle"]
    /\ received = <<>>
    /\ tasks = {}
    /\ managers = <<>>
    /\ mgr_mailbox = [t \in RouterTopics |-> <<>>]
    /\ mgr_log = [t \in RouterTopics |-> <<>>]
    /\ transport = <<>>
    /\ published = <<>>

\* KvStorage::clear: no crypto-* record at all.
EmptyStorage ==
    [pairingtopic |-> None,
     sessions |-> None,
     key |-> [t \in Topics |-> None],
     settlement |-> [t \in Topics |-> None]]

\* An empty DashMap.
EmptyMap == [t \in {} |-> 0]

\* DashMap::insert
Insert(m, k, v) == [x \in (DOMAIN m) \cup {k} |-> IF x = k THEN v ELSE m[x]]

\* DashMap::remove
Remove(m, k) == [x \in (DOMAIN m) \ {k} |-> m[x]]

\* The record of a call: the operation, its topic argument (0 when it has
\* none), what it returned, its other arguments and its value where a claim
\* reads them, and how many AEAD keys and settlement records there were
\* when it was made.
Call(op, topic, ret) ==
    [op |-> op, topic |-> topic, ret |-> ret, arg |-> <<>>, out |-> <<>>,
     before |-> [keys |-> Cardinality(DOMAIN ciphers),
                 settled |-> Cardinality({t \in Topics : storage.settlement[t] # <<>>})]]

(* ----------------------------- observers ------------------------------ *)
\* Cipher::pairing(): read from the store, not from the in-memory map.
Pairing(st) == st.pairingtopic

\* Cipher::pairing_key()
pairing_key(st) == IF IsSome(Pairing(st)) THEN Some(Unwrap(Pairing(st)).sym_key) ELSE None

\* is_expired under which a session is expired from its expiry time on.
is_expired_inclusive(st, topic, t_now) ==
    IF IsSome(st.settlement[topic])
    THEN [err |-> "Ok", expired |-> Unwrap(st.settlement[topic]).expiry <= t_now]
    ELSE [err |-> "UnknownSessionTopic", expired |-> FALSE]

\* Cipher::is_expired: Err(UnknownSessionTopic) when no settlement is stored.
is_expired(st, topic, t_now) ==
    IF IsSome(st.settlement[topic])
    THEN [err |-> "Ok", expired |-> Unwrap(st.settlement[topic]).expiry < t_now]
    ELSE [err |-> "UnknownSessionTopic", expired |-> FALSE]

\* Cipher::public_key and Cipher::public_key_hex: the public key of the
\* pairing key, hex-encoded.
public_key(st) ==
    IF IsSome(Pairing(st)) THEN Some(PublicKey(Unwrap(Pairing(st)).sym_key)) ELSE None
public_key_hex(st) ==
    IF IsSome(public_key(st)) THEN Some(HexEncode(Unwrap(public_key(st)))) ELSE None

\* The lookup that opens encode_with_params and decode_bytes.
cipher_lookup(c, topic) == IF topic \in DOMAIN c THEN "Ok" ELSE "UnknownTopic"

\* Cipher::subscriptions(): the topics that have an AEAD key.
subscriptions(c) == DOMAIN c

RECURSIVE SettledOf(_, _)
SettledOf(st, topics) ==
    IF topics = <<>> THEN <<>>
    ELSE LET rest == SettledOf(st, Tail(topics))
         IN IF IsSome(st.settlement[Head(topics)])
            THEN <<Unwrap(st.settlement[Head(topics)])>> \o rest
            ELSE rest

\* Cipher::settlements()
settlements(st, c, p) ==
    IF DOMAIN p = {} \/ DOMAIN c = {} THEN <<>>
    ELSE SettledOf(st, IF IsSome(st.sessions) THEN Unwrap(st.sessions) ELSE <<>>)

(* ----------------------------- operations ----------------------------- *)
\* Cipher::register
register(c, topic, key) == Insert(c, topic, key)

\* The loop of Cipher::init over the persisted session list: stops at the
\* first expired session, registers the re-derived key of every other one.
RECURSIVE InitSessions(_, _, _, _, _)
InitSessions(st, c, key, sessions, t_now) ==
    IF sessions = <<>> THEN [err |-> "Ok", ciphers |-> c, session_expired |-> FALSE]
    ELSE LET s == Head(sessions)
             e == is_expired(st, s, t_now)
         IN IF e.err = "Ok" /\ e.expired
            THEN [err |-> "Ok", ciphers |-> c, session_expired |-> TRUE]
            ELSE IF IsSome(st.key[s])
                 THEN LET d == derive_sym_key(key, Unwrap(st.key[s]))
                      IN IF d.err # "Ok"
                         THEN [err |-> d.err, ciphers |-> c, session_expired |-> FALSE]
                         ELSE InitSessions(st, register(c, d.topic, d.key), key,
                                           Tail(sessions), t_now)
                 ELSE InitSessions(st, c, key, Tail(sessions), t_now)

\* Cipher::new whose init returns without storage.clear() when the store has
\* no pairing.
CipherNew_keeps_leftovers(st, t_now) ==
    LET found == Pairing(st)
        pairings == IF IsSome(found)
                    THEN Insert(EmptyMap, Unwrap(found).topic, Unwrap(found))
                    ELSE EmptyMap
    IN IF ~IsSome(found)
       THEN [err |-> "Ok", storage |-> st, ciphers |-> EmptyMap, pairing |-> pairings]
       ELSE LET p == Unwrap(found)
                c0 == Insert(EmptyMap, p.topic, p.sym_key)
            IN IF IsSome(st.sessions)
               THEN LET r == InitSessions(st, c0, p.sym_key, Unwrap(st.sessions), t_now)
                    IN [err |-> r.err,
                        storage |-> IF r.err = "Ok" /\ r.session_expired
                                    THEN EmptyStorage ELSE st,
                        ciphers |-> r.ciphers,
                        pairing |-> pairings]
               ELSE [err |-> "Ok", storage |-> st, ciphers |-> c0, pairing |-> pairings]

\* Cipher::new followed by Cipher::init, as a function of the store it is
\* given: the store it leaves, the two maps of the cipher and the result.
CipherNew(st, t_now) ==
    LET found == Pairing(st)
        pairings == IF IsSome(found)
                    THEN Insert(EmptyMap, Unwrap(found).topic, Unwrap(found))
                    ELSE EmptyMap
    IN IF ~IsSome(found)
       THEN [err |-> "Ok", storage |-> EmptyStorage, ciphers |-> EmptyMap, pairing |-> pairings]
       ELSE LET p == Unwrap(found)
                c0 == Insert(EmptyMap, p.topic, p.sym_key)
            IN IF IsSome(st.sessions)
               THEN LET r == InitSessions(st, c0, p.sym_key, Unwrap(st.sessions), t_now)
                    IN [err |-> r.err,
                        storage |-> IF r.err = "Ok" /\ r.session_expired
                                    THEN EmptyStorage ELSE st,
                        ciphers |-> r.ciphers,
                        pairing |-> pairings]
               ELSE [err |-> "Ok", storage |-> st, ciphers |-> c0, pairing |-> pairings]

\* A restart: the old Cipher is dropped and a new one built over the store.
New ==
    /\ LET r == CipherNew(storage, now)
       IN /\ storage' = r.storage
          /\ ciphers' = r.ciphers
          /\ pairing' = r.pairing
          /\ call' = Call("new", 0, r.err)
    /\ UNCHANGED <<now, del, actor_vars>>

\* reset that forgets ciphers.clear().
reset_keeps_ciphers(st, c, p) == [storage |-> EmptyStorage, ciphers |-> c, pairing |-> EmptyMap]

\* reset that forgets pairing.clear().
reset_keeps_pairing(st, c, p) == [storage |-> EmptyStorage, ciphers |-> EmptyMap, pairing |-> p]

\* Cipher::reset: both maps and the store are cleared.
reset(st, c, p) == [storage |-> EmptyStorage, ciphers |-> EmptyMap, pairing |-> EmptyMap]

Reset ==
    /\ LET r == reset(storage, ciphers, pairing)
       IN /\ storage' = r.storage
          /\ ciphers' = r.ciphers
          /\ pairing' = r.pairing
    /\ call' = Call("reset", 0, "Ok")
    /\ UNCHANGED <<now, del, actor_vars>>

\* set_pairing that installs the new pairing over the old state, without reset.
set_pairing_no_reset(st, c, p, opt) ==
    IF IsSome(opt)
    THEN LET new_pair == Unwrap(opt)
         IN [storage |-> [st EXCEPT !.pairingtopic = Some(new_pair)],
             ciphers |-> Insert(c, new_pair.topic, new_pair.sym_key),
             pairing |-> Insert(p, new_pair.topic, new_pair)]
    ELSE [storage |-> st, ciphers |-> c, pairing |-> p]

\* Cipher::set_pairing: reset, then install the new pairing if there is one.
set_pairing(st, c, p, opt) ==
    LET r == reset(st, c, p)
    IN IF IsSome(opt)
       THEN LET new_pair == Unwrap(opt)
            IN [storage |-> [r.storage EXCEPT !.pairingtopic = Some(new_pair)],
                ciphers |-> Insert(r.ciphers, new_pair.topic, new_pair.sym_key),
                pairing |-> Insert(r.pairing, new_pair.topic, new_pair)]
       ELSE r

SetPairing(opt) ==
    /\ LET r == set_pairing(storage, ciphers, pairing, opt)
       IN /\ storage' = r.storage
          /\ ciphers' = r.ciphers
          /\ pairing' = r.pairing
    /\ call' = Call("set_pairing", IF IsSome(opt) THEN Unwrap(opt).topic ELSE 0, "Ok")
    /\ UNCHANGED <<now, del, actor_vars>>

\* Cipher::update_sessions: the session list is set to the one new topic.
update_sessions(st, controller_pk, topic) ==
    [st EXCEPT !.sessions = Some(<<topic>>),
               !.key[topic] = Some(controller_pk)]

\* create_common_topic that persists the controller key before deriving from it.
CreateCommonTopic_writes_first(controller_pk) ==
    /\ LET k == pairing_key(storage)
       IN IF ~IsSome(k)
          THEN /\ call' = Call("create_common_topic", 0, "NonExistingPairing")
               /\ UNCHANGED <<storage, ciphers>>
          ELSE LET d == derive_sym_key(Unwrap(k), controller_pk)
               IN IF d.err # "Ok"
                  THEN /\ call' = Call("create_common_topic", 0, d.err)
                       /\ storage' = [storage EXCEPT !.sessions = Some(<<>>)]
                       /\ UNCHANGED ciphers
                  ELSE /\ storage' = update_sessions(storage, controller_pk, d.topic)
                       /\ ciphers' = register(ciphers, d.topic, d.key)
                       /\ call' = Call("create_common_topic", d.topic, "Ok")
    /\ UNCHANGED <<pairing, now, del, actor_vars>>

\* Cipher::create_common_topic
CreateCommonTopic(controller_pk) ==
    /\ LET k == pairing_key(storage)
       IN IF ~IsSome(k)
          THEN /\ call' = Call("create_common_topic", 0, "NonExistingPairing")
               /\ UNCHANGED <<storage, ciphers>>
          ELSE LET d == derive_sym_key(Unwrap(k), controller_pk)
               IN IF d.err # "Ok"
                  THEN /\ call' = Call("create_common_topic", 0, d.err)
                       /\ UNCHANGED <<storage, ciphers>>
                  ELSE /\ storage' = update_sessions(storage, controller_pk, d.topic)
                       /\ ciphers' = register(ciphers, d.topic, d.key)
                       /\ call' = Call("create_common_topic", d.topic, "Ok")
    /\ UNCHANGED <<pairing, now, del, actor_vars>>

\* Cipher::set_settlement
set_settlement(st, topic, settlement) == [st EXCEPT !.settlement[topic] = Some(settlement)]

SetSettlement(topic, expiry) ==
    /\ storage' = set_settlement(storage, topic, SessionSettled(topic, expiry))
    /\ call' = Call("set_settlement", topic, "Ok")
    /\ UNCHANGED <<ciphers, pairing, now, del, actor_vars>>

\* The four steps of Cipher::delete_session, in the order of the code.
\* 1. storage.delete(crypto-<topic>)
DeleteSessionKey(st, topic) == [st EXCEPT !.key[topic] = None]

\* 2. the session list is rewritten through filter(|t| t == topic).
FilterSessions(st, topic) ==
    IF IsSome(st.sessions)
    THEN [st EXCEPT !.sessions = Some(SelectSeq(Unwrap(st.sessions), LAMBDA t : t = topic))]
    ELSE st

\* delete_session that leaves the settlement record behind.
DeleteSettlement_kept(st, topic) == st

\* 3. storage.delete(crypto-settlement-<topic>)
DeleteSettlement(st, topic) == [st EXCEPT !.settlement[topic] = None]

\* 4. ciphers.remove(topic)
RemoveCipher(c, topic) == Remove(c, topic)

\* Cipher::delete_session, run to completion.
delete_session(st, c, topic) ==
    [storage |-> DeleteSettlement(FilterSessions(DeleteSessionKey(st, topic), topic), topic),
     ciphers |-> RemoveCipher(c, topic)]

DeleteSession(topic) ==
    /\ del = None
    /\ LET r == delete_session(storage, ciphers, topic)
       IN /\ storage' = r.storage
          /\ ciphers' = r.ciphers
    /\ call' = Call("delete_session", topic, "Ok")
    /\ UNCHANGED <<pairing, now, del, actor_vars>>

\* The clock read by is_expired advances.
Tick ==
    /\ now < MaxNow
    /\ now' = now + 1
    /\ UNCHANGED <<storage, ciphers, pairing, call, del, actor_vars>>

Init ==
    /\ storage = EmptyStorage
    /\ ciphers = EmptyMap
    /\ pairing = EmptyMap
    /\ now = 0
    /\ call = [op |-> "new", topic |-> 0, ret |-> "Ok", arg |-> <<>>, out |-> <<>>,
               before |-> [keys |-> 0, settled |-> 0]]
    /\ del = None
    /\ RouterInit
    /\ relay_subs = {}
    /\ registering = <<>>
    /\ WalletInit
    /\ parked = {}

\* The topics a caller can name: those with an AEAD key, those in the
\* persisted session list and those with a persisted controller key.
KnownTopics ==
    subscriptions(ciphers)
        \cup (IF IsSome(storage.sessions)
              THEN {Unwrap(storage.sessions)[i] : i \in DOMAIN Unwrap(storage.sessions)}
              ELSE {})
        \cup {t \in Topics : IsSome(storage.key[t])}

\* Settlements are stored for session topics that have an AEAD key.
SettledTopics == subscriptions(ciphers) \cap SessionTopics

Next ==
    \/ New
    \/ Reset
    \/ \E opt \in {None} \cup {Some(p) : p \in Pairings} : SetPairing(opt)
    \/ \E pk \in ControllerPks : CreateCommonTopic(pk)
    \/ \E t \in SettledTopics, e \in Expiries : SetSettlement(t, e)
    \/ \E t \in KnownTopics : DeleteSession(t)
    \/ Tick

Spec == Init /\ [][Next]_vars

(* ------------------- construction over a used store ------------------- *)
\* set_settlement takes any topic and writes its record whether or not the
\* store has a pairing: a settlement that outlives a reset leaves its record
\* in a store without a pairing (one such settlement at a time here).  A
\* restart then builds a Cipher over it.
NextNew ==
    \/ New
    \/ \E opt \in {None} \cup {Some(p) : p \in Pairings} : SetPairing(opt)
    \/ \E pk \in ControllerPks : CreateCommonTopic(pk)
    \/ \E t \in SettledTopics, e \in Expiries : SetSettlement(t, e)
    \/ \E t \in SessionTopics, e \in Expiries :
          /\ ~IsSome(Pairing(storage))
          /\ \A u \in Topics : ~IsSome(storage.settlement[u])
          /\ SetSettlement(t, e)
    \/ Tick

SpecNew == Init /\ [][NextNew]_vars

(* ------------------------------ envelopes ----------------------------- *)
\* MULTICODEC_ED25519_LENGTH, the nonce length of ChaCha20Poly1305 and the
\* length of its authentication tag.
KeyLen == 32
NonceLen == 12
TagLen == 16

\* The number of payloads and nonces tried.
NumPayloads == 2
NumNonces == 2

Bytes(n, v) == [i \in 1..n |-> v]
SubBytes(b, from, to) == [i \in 1..(to - from) |-> b[from + i]]

RECURSIVE SumFrom(_, _)
SumFrom(b, i) == IF i > Len(b) THEN 0 ELSE b[i] + SumFrom(b, i + 1)
SumBytes(b) == SumFrom(b, 1)

\* serde_json::to_string of a payload: the JSON text "[d]" of the array
\* holding the one digit d.
Payloads == 1..NumPayloads
ToJson(x) == <<91, 48 + x, 93>>

\* serde_json::from_str
FromJson(text) ==
    IF Len(text) = 3 /\ text[1] = 91 /\ text[3] = 93 /\ text[2] - 48 \in 0..9
    THEN [err |-> "Ok", value |-> Some(text[2] - 48)]
    ELSE [err |-> "Json", value |-> None]

\* String::from_utf8, on the single-byte range.
FromUtf8(b) ==
    IF \A i \in DOMAIN b : b[i] < 128 THEN [err |-> "Ok", text |-> b]
    ELSE [err |-> "Utf8", text |-> <<>>]

\* data_encoding::BASE64.encode: sextets 0..63, 64 for the padding '='.
Base64Encode(b) ==
    LET n == Len(b)
        at(i) == IF i <= n THEN b[i] ELSE 0
        char(i) ==
            LET g == 3 * ((i - 1) \div 4)
                j == (i - 1) % 4
            IN CASE j = 0 -> at(g + 1) \div 4
                 [] j = 1 -> (at(g + 1) % 4) * 16 + at(g + 2) \div 16
                 [] j = 2 -> IF g + 2 > n THEN 64
                             ELSE (at(g + 2) % 16) * 4 + at(g + 3) \div 64
                 [] j = 3 -> IF g + 3 > n THEN 64 ELSE at(g + 3) % 64
    IN [i \in 1..(4 * ((n + 2) \div 3)) |-> char(i)]

\* data_encoding::BASE64.decode: the length is a multiple of four, padding
\* ends the text, and the bits that no byte takes are zero.
Base64Decode(c) ==
    LET n == Len(c)
        pad == Cardinality({i \in 1..n : c[i] = 64})
        val(i) == IF c[i] = 64 THEN 0 ELSE c[i]
        len == 3 * (n \div 4) - pad
        byte(i) ==
            LET g == (i - 1) \div 3
                j == (i - 1) % 3
            IN CASE j = 0 -> val(4 * g + 1) * 4 + val(4 * g + 2) \div 16
                 [] j = 1 -> (val(4 * g + 2) % 16) * 16 + val(4 * g + 3) \div 4
                 [] j = 2 -> (val(4 * g + 3) % 4) * 64 + val(4 * g + 4)
        trailing == CASE pad = 0 -> 0
                      [] pad = 1 -> c[n - 1] % 4
                      [] pad = 2 -> c[n - 2] % 16
    IN IF n % 4 # 0 \/ pad > 2 \/ (\E i \in 1..n : c[i] = 64 /\ i <= n - pad)
       THEN [err |-> "DecodeError", bytes |-> <<>>]
       ELSE IF trailing # 0
            THEN [err |-> "DecodeError", bytes |-> <<>>]
            ELSE [err |-> "Ok", bytes |-> [i \in 1..len |-> byte(i)]]

\* ChaCha20Poly1305 under a key: the keystream byte for a position and the
\* tag over the ciphertext.
KeyStream(key, nonce, i) == (key + 3 * nonce[1] + 7 * i) % 256
AeadTag(key, nonce, ct) ==
    LET sum == key + nonce[1] + SumBytes(ct)
    IN [j \in 1..TagLen |-> (sum + j) % 256]

\* Aead::encrypt: ciphertext followed by the tag.
AeadEncrypt(key, nonce, pt) ==
    LET ct == [i \in 1..Len(pt) |-> (pt[i] + KeyStream(key, nonce, i)) % 256]
    IN ct \o AeadTag(key, nonce, ct)

\* Aead::decrypt: fails unless the tag authenticates the ciphertext.
AeadDecrypt(key, nonce, data) ==
    IF Len(data) < TagLen THEN [err |-> "Error", pt |-> <<>>]
    ELSE LET ct == SubBytes(data, 0, Len(data) - TagLen)
             tag == SubBytes(data, Len(data) - TagLen, Len(data))
         IN IF tag # AeadTag(key, nonce, ct) THEN [err |-> "Error", pt |-> <<>>]
            ELSE [err |-> "Ok",
                  pt |-> [i \in 1..Len(ct) |-> (ct[i] + 256 - KeyStream(key, nonce, i)) % 256]]

\* The nonces and the Ed25519 verifying keys of senders.
Nonces == {Bytes(NonceLen, n - 1) : n \in 1..NumNonces}
SenderKey == Bytes(KeyLen, 7)

\* enum Type
Type0 == [tag |-> 0, key |-> <<>>]
Type1(key) == [tag |-> 1, key |-> key]
Types == {Type0, Type1(SenderKey)}

\* Type::as_bytes
as_bytes(type) == IF type.tag = 1 THEN <<1>> \o type.key ELSE <<0>>

\* <&[u8; 32]>::try_from(slice): fails unless the slice has 32 bytes.
TryInto32(slice) == Len(slice) = KeyLen

\* VerifyingKey::from_bytes: fails on bytes that are no curve point.
VerifyingKeyFromBytes(b) == IF b[1] = 255 THEN None ELSE Some(b)

\* Type::from_bytes.  bytes[0] panics on no bytes; for the type byte 1 the
\* slice bytes[1..32] panics on fewer than 32 bytes and has 31 bytes
\* otherwise, which try_into().unwrap() panics on.
from_bytes(bytes) ==
    IF Len(bytes) = 0 THEN [panic |-> TRUE, type |-> None]
    ELSE IF bytes[1] = 0 THEN [panic |-> FALSE, type |-> Some(Type0)]
    ELSE IF bytes[1] = 1
         THEN IF Len(bytes) < 32 THEN [panic |-> TRUE, type |-> None]
              ELSE LET slice == SubBytes(bytes, 1, 32)
                   IN IF ~TryInto32(slice) THEN [panic |-> TRUE, type |-> None]
                      ELSE LET key == VerifyingKeyFromBytes(slice)
                           IN [panic |-> FALSE,
                               type |-> IF IsSome(key) THEN Some(Type1(Unwrap(key))) ELSE None]
    ELSE [panic |-> FALSE, type |-> None]

\* encode_with_params that encrypts under a zero key when the topic has none.
encode_with_params_unchecked(c, topic, payload, nonce, envelope_type) ==
    LET key == IF topic \in DOMAIN c THEN c[topic] ELSE 0
        envelope == as_bytes(envelope_type) \o nonce \o AeadEncrypt(key, nonce, ToJson(payload))
    IN [err |-> "Ok", out |-> Some(Base64Encode(envelope))]

\* Cipher::encode_with_params
encode_with_params(c, topic, payload, nonce, envelope_type) ==
    IF cipher_lookup(c, topic) # "Ok" THEN [err |-> "UnknownTopic", out |-> None]
    ELSE LET serialized_payload == ToJson(payload)
             encrypted_payload == AeadEncrypt(c[topic], nonce, serialized_payload)
             envelope == as_bytes(envelope_type) \o nonce \o encrypted_payload
         IN [err |-> "Ok", out |-> Some(Base64Encode(envelope))]

\* Cipher::decode_bytes.  The slices bytes[0..12] and bytes[12..] panic on
\* fewer than 12 bytes.
decode_bytes(c, topic, bytes) ==
    IF cipher_lookup(c, topic) # "Ok" THEN [err |-> "UnknownTopic", text |-> <<>>]
    ELSE IF Len(bytes) < NonceLen THEN [err |-> "panic", text |-> <<>>]
    ELSE LET decoded_bytes == AeadDecrypt(c[topic], SubBytes(bytes, 0, NonceLen),
                                           SubBytes(bytes, NonceLen, Len(bytes)))
         IN IF decoded_bytes.err # "Ok" THEN [err |-> "EncryptionError", text |-> <<>>]
            ELSE FromUtf8(decoded_bytes.pt)

\* decode_to_string that takes the nonce of a type-0 envelope one byte late.
decode_to_string_skewed(c, topic, payload) ==
    LET encrypted_payload == Base64Decode(payload)
    IN IF encrypted_payload.err # "Ok" THEN [err |-> "DecodeError", text |-> <<>>]
       ELSE IF Len(encrypted_payload.bytes) < 2 THEN [err |-> "CorruptedPayload", text |-> <<>>]
       ELSE decode_bytes(c, topic, SubBytes(encrypted_payload.bytes, 2,
                                            Len(encrypted_payload.bytes)))

\* Cipher::decode_to_string.  The slice encrypted_payload[33..] panics on
\* fewer than 33 bytes.
decode_to_string(c, topic, payload) ==
    LET encrypted_payload == Base64Decode(payload)
    IN IF encrypted_payload.err # "Ok" THEN [err |-> "DecodeError", text |-> <<>>]
       ELSE LET bytes == encrypted_payload.bytes
                type == from_bytes(bytes)
            IN IF type.panic THEN [err |-> "panic", text |-> <<>>]
               ELSE IF ~IsSome(type.type) THEN [err |-> "CorruptedPayload", text |-> <<>>]
               ELSE IF Unwrap(type.type).tag = 0
                    THEN decode_bytes(c, topic, SubBytes(bytes, 1, Len(bytes)))
               ELSE IF Len(bytes) < 33 THEN [err |-> "panic", text |-> <<>>]
               ELSE decode_bytes(c, topic, SubBytes(bytes, 33, Len(bytes)))

\* Cipher::decode
decode(c, topic, payload) ==
    LET decoded_msg == decode_to_string(c, topic, payload)
    IN IF decoded_msg.err # "Ok" THEN [err |-> decoded_msg.err, value |-> None]
       ELSE FromJson(decoded_msg.text)

\* The record of an encode or decode call: an encode that returned an
\* envelope with that envelope and the arguments it was made from, a decode
\* with the payload it returned.
CallIO(op, topic, ret, arg, out) ==
    [Call(op, topic, ret) EXCEPT !.arg = arg, !.out = out]

\* Cipher::encode and Cipher::encode_with_params: encode is
\* encode_with_params with a fresh nonce and Type0.
Encode(topic, payload, nonce, envelope_type) ==
    LET r == encode_with_params(ciphers, topic, payload, nonce, envelope_type)
    IN /\ del = None
       /\ call' = CallIO("encode", topic, r.err,
                         IF r.err = "Ok"
                         THEN [payload |-> payload, nonce |-> nonce, type |-> envelope_type]
                         ELSE <<>>,
                         r.out)
       /\ UNCHANGED <<storage, ciphers, pairing, now, del, actor_vars>>

\* Cipher::decode
Decode(topic, payload) ==
    LET r == decode(ciphers, topic, payload)
    IN /\ del = None
       /\ call' = CallIO("decode", topic, r.err, <<>>, r.value)
       /\ UNCHANGED <<storage, ciphers, pairing, now, del, actor_vars>>

\* An envelope with one byte changed.
WithByte(bytes, i, v) == [bytes EXCEPT ![i] = v]

\* Envelopes with no bytes, with an unknown type byte, and too short for
\* the nonce (type 0) or for the sender key and the nonce (type 1).
TruncatedWires ==
    {Base64Encode(<<>>),
     Base64Encode(<<2>> \o Bytes(NonceLen + TagLen, 0)),
     Base64Encode(<<0>>),
     Base64Encode(<<1>> \o Bytes(NonceLen, 0))}

\* Envelopes that no encode produced: the truncated ones, a type byte and
\* a nonce with no ciphertext, and text that is not Base64.
MalformedWires ==
    TruncatedWires \cup {Base64Encode(<<0>> \o Bytes(NonceLen, 0)), <<1, 2, 3>>}

\* The envelopes received after an encode: the one it produced, and that
\* one with its last ciphertext byte, its type byte, or the first byte of
\* its sender key changed.
ReceivedWires ==
    IF call.op = "encode" /\ call.ret = "Ok"
    THEN LET envelope == Base64Decode(Unwrap(call.out)).bytes
         IN {Unwrap(call.out),
             Base64Encode(WithByte(envelope, Len(envelope) - TagLen,
                                   (envelope[Len(envelope) - TagLen] + 1) % 256)),
             Base64Encode(WithByte(envelope, 1, 2)),
             Base64Encode(WithByte(envelope, 2, 255))}
    ELSE {}

\* The topics that envelopes are encoded and decoded on: those the keystore
\* knows, the pairing topics, and the topic of the last call.
EnvelopeTopics == KnownTopics \cup PairingTopics \cup ({call.topic} \cap Topics)

NextEnvelope ==
    \/ \E p \in Pairings : SetPairing(Some(p))
    \/ \E k \in PeerKeys : CreateCommonTopic(HexEncode(PublicKey(k)))
    \/ \E t \in EnvelopeTopics, x \in Payloads, n \in Nonces, ty \in Types : Encode(t, x, n, ty)
    \/ \E t \in EnvelopeTopics, w \in ReceivedWires \cup MalformedWires : Decode(t, w)

SpecEnvelope == Init /\ [][NextEnvelope]_vars

\* The keystore with encodes on the topics that have no AEAD key.
NextEncode ==
    \/ Reset
    \/ \E opt \in {None} \cup {Some(p) : p \in Pairings} : SetPairing(opt)
    \/ \E pk \in ControllerPks : CreateCommonTopic(pk)
    \/ \E t \in KnownTopics : DeleteSession(t)
    \/ \E t \in Topics \ subscriptions(ciphers), x \in Payloads, n \in Nonces, ty \in Types :
           Encode(t, x, n, ty)

SpecEncode == Init /\ [][NextEncode]_vars

(* ------------------------------- expiry ------------------------------- *)
\* Cipher::is_expired
IsExpired(topic) ==
    LET r == is_expired(storage, topic, now)
    IN /\ del = None
       /\ call' = CallIO("is_expired", topic, r.err, <<>>,
                         IF r.err = "Ok" THEN Some(r.expired) ELSE None)
       /\ UNCHANGED <<storage, ciphers, pairing, now, del, actor_vars>>

NextExpiry ==
    \/ \E p \in Pairings : SetPairing(Some(p))
    \/ \E k \in PeerKeys : CreateCommonTopic(HexEncode(PublicKey(k)))
    \/ \E t \in SettledTopics, e \in Expiries : SetSettlement(t, e)
    \/ Tick
    \/ \E t \in Topics : IsExpired(t)

SpecExpiry == Init /\ [][NextExpiry]_vars

(* --------------------------- store failures --------------------------- *)
\* The kinds of record a read of the store can fail on.
RecordKinds == {"pairingtopic", "sessions", "key"}

\* KvStorage::get of a record: an absent record reads as None, a present
\* record of a corrupt kind fails.
StoreGet(record, kind, corrupt) ==
    IF IsSome(record) /\ kind = corrupt
    THEN [err |-> "StorageError", value |-> None]
    ELSE [err |-> "Ok", value |-> record]

\* The loop of Cipher::init over the session list when reads may fail: the
\* read of a settlement inside is_expired is taken as not expired by
\* .ok().unwrap_or(false), the read of a controller key returns the error.
RECURSIVE InitSessionsCorrupt(_, _, _, _, _, _)
InitSessionsCorrupt(st, c, key, sessions, t_now, corrupt) ==
    IF sessions = <<>> THEN [err |-> "Ok", ciphers |-> c, session_expired |-> FALSE]
    ELSE LET s == Head(sessions)
             e == is_expired(st, s, t_now)
             controller_pk == StoreGet(st.key[s], "key", corrupt)
         IN IF e.err = "Ok" /\ e.expired
            THEN [err |-> "Ok", ciphers |-> c, session_expired |-> TRUE]
            ELSE IF controller_pk.err # "Ok"
                 THEN [err |-> controller_pk.err, ciphers |-> c, session_expired |-> FALSE]
            ELSE IF IsSome(controller_pk.value)
                 THEN LET d == derive_sym_key(key, Unwrap(controller_pk.value))
                      IN IF d.err # "Ok"
                         THEN [err |-> d.err, ciphers |-> c, session_expired |-> FALSE]
                         ELSE InitSessionsCorrupt(st, register(c, d.topic, d.key), key,
                                                  Tail(sessions), t_now, corrupt)
                 ELSE InitSessionsCorrupt(st, c, key, Tail(sessions), t_now, corrupt)

\* Cipher::new and Cipher::init over a store whose records of one kind are
\* corrupt.  An error leaves no Cipher: both maps are dropped with it.  The
\* read in Cipher::pairing() takes a failure as None.
CipherNewCorrupt(st, t_now, corrupt) ==
    LET failed == [err |-> "StorageError", storage |-> st,
                   ciphers |-> EmptyMap, pairing |-> EmptyMap]
        stored == StoreGet(st.pairingtopic, "pairingtopic", corrupt)
    IN IF stored.err # "Ok" THEN failed
       ELSE IF ~IsSome(stored.value)
            THEN [err |-> "Ok", storage |-> EmptyStorage,
                  ciphers |-> EmptyMap, pairing |-> EmptyMap]
       ELSE LET p == Unwrap(stored.value)
                pairings == Insert(EmptyMap, p.topic, p)
                c0 == Insert(EmptyMap, p.topic, p.sym_key)
                sessions == StoreGet(st.sessions, "sessions", corrupt)
            IN IF sessions.err # "Ok" THEN failed
               ELSE IF IsSome(sessions.value)
                    THEN LET r == InitSessionsCorrupt(st, c0, p.sym_key,
                                                      Unwrap(sessions.value), t_now, corrupt)
                         IN IF r.err # "Ok" THEN [failed EXCEPT !.err = r.err]
                            ELSE [err |-> "Ok",
                                  storage |-> IF r.session_expired THEN EmptyStorage ELSE st,
                                  ciphers |-> r.ciphers,
                                  pairing |-> pairings]
               ELSE [err |-> "Ok", storage |-> st, ciphers |-> c0, pairing |-> pairings]

\* A restart over a store whose records of one kind are corrupt.
NewCorrupt(corrupt) ==
    /\ LET r == CipherNewCorrupt(storage, now, corrupt)
       IN /\ storage' = r.storage
          /\ ciphers' = r.ciphers
          /\ pairing' = r.pairing
          /\ call' = [Call("new", 0, r.err) EXCEPT !.arg = corrupt]
    /\ UNCHANGED <<now, del, actor_vars>>

\* set_pairing(Some(new_pair)) that inserts into the maps before it writes
\* the store.
set_pairing_write_last(st, c, p, new_pair) ==
    [err |-> "StorageError", storage |-> EmptyStorage,
     ciphers |-> Insert(EmptyMap, new_pair.topic, new_pair.sym_key),
     pairing |-> Insert(EmptyMap, new_pair.topic, new_pair)]

\* Cipher::set_pairing(Some(new_pair)) when the write of the pairing record
\* fails: reset has run, the error returns before the maps are filled.
set_pairing_write_fails(st, c, p, new_pair) ==
    LET r == reset(st, c, p)
    IN [err |-> "StorageError", storage |-> r.storage,
        ciphers |-> r.ciphers, pairing |-> r.pairing]

SetPairingWriteFails(new_pair) ==
    /\ LET r == set_pairing_write_fails(storage, ciphers, pairing, new_pair)
       IN /\ storage' = r.storage
          /\ ciphers' = r.ciphers
          /\ pairing' = r.pairing
          /\ call' = Call("set_pairing", new_pair.topic, r.err)
    /\ UNCHANGED <<now, del, actor_vars>>

\* A Cipher exists unless the last construction failed.
Constructed == ~(call.op = "new" /\ call.ret # "Ok")

NextCorrupt ==
    \/ New
    \/ \E corrupt \in RecordKinds : NewCorrupt(corrupt)
    \/ /\ Constructed
       /\ \/ \E p \in Pairings : SetPairing(Some(p))
          \/ \E p \in Pairings : SetPairingWriteFails(p)
          \/ \E pk \in ControllerPks : CreateCommonTopic(pk)
          \/ \E t \in SettledTopics, e \in Expiries : SetSettlement(t, e)
          \/ Tick

SpecCorrupt == Init /\ [][NextCorrupt]_vars

(* ------------- delete_session, one store or map call at a time -------- *)
\* storage.delete(crypto-<topic>) is the first call of delete_session.
DeleteBegin(topic) ==
    /\ del = None
    /\ storage' = DeleteSessionKey(storage, topic)
    /\ del' = Some([topic |-> topic, pc |-> 2])
    /\ UNCHANGED <<ciphers, pairing, now, call, actor_vars>>

DeleteFilter ==
    /\ IsSome(del) /\ Unwrap(del).pc = 2
    /\ storage' = FilterSessions(storage, Unwrap(del).topic)
    /\ del' = Some([Unwrap(del) EXCEPT !.pc = 3])
    /\ UNCHANGED <<ciphers, pairing, now, call, actor_vars>>

DeleteSettle ==
    /\ IsSome(del) /\ Unwrap(del).pc = 3
    /\ storage' = DeleteSettlement(storage, Unwrap(del).topic)
    /\ del' = Some([Unwrap(del) EXCEPT !.pc = 4])
    /\ UNCHANGED <<ciphers, pairing, now, call, actor_vars>>

DeleteRemove ==
    /\ IsSome(del) /\ Unwrap(del).pc = 4
    /\ ciphers' = RemoveCipher(ciphers, Unwrap(del).topic)
    /\ del' = None
    /\ UNCHANGED <<storage, pairing, now, call, actor_vars>>

\* One caller runs delete_session while another, holding a clone of the
\* same Cipher, makes its own calls between the steps.
NextConc ==
    \/ \E t \in KnownTopics : DeleteBegin(t)
    \/ DeleteFilter
    \/ DeleteSettle
    \/ DeleteRemove
    \/ Reset
    \/ \E opt \in {None} \cup {Some(p) : p \in Pairings} : SetPairing(opt)
    \/ \E pk \in ControllerPks : CreateCommonTopic(pk)
    \/ \E t \in SettledTopics, e \in Expiries : SetSettlement(t, e)
    \/ Tick

SpecConc == Init /\ [][NextConc]_vars

(* ------- the keystore driven without set_settlement (claim C10) ------- *)
NextPairing ==
    \/ New
    \/ Reset
    \/ \E opt \in {None} \cup {Some(p) : p \in Pairings} : SetPairing(opt)
    \/ \E pk \in ControllerPks : CreateCommonTopic(pk)
    \/ \E t \in KnownTopics : DeleteSession(t)

SpecPairing == Init /\ [][NextPairing]_vars

(* --------------------------- request router --------------------------- *)
\* Bound: the inbound requests of a run.
MaxRequests == 2

\* RequestParams: the three pairing methods and the eight session methods.
PairMethods == {"PairDelete", "PairExtend", "PairPing"}
SessionMethods == {"SessionPropose", "SessionSettle", "SessionUpdate", "SessionExtend",
                   "SessionRequest", "SessionEvent", "SessionDelete", "SessionPing"}
RequestParams == PairMethods \cup SessionMethods

RpcRequest(id, topic, method) == [id |-> id, topic |-> topic, method |-> method]

\* ErrorParams::unknown
ErrorParams_unknown == [code |-> Some(1), message |-> "Unknown Error"]

\* ResponseParamsError::<method>(params) and ResponseParamsSuccess::<method>(true)
ResponseParamsError(method, params) ==
    [kind |-> "Error", method |-> method, params |-> params]
ResponseParamsSuccess(method) ==
    [kind |-> "Success", method |-> method, params |-> TRUE]

RpcResponse(id, topic, payload) == [id |-> id, topic |-> topic, payload |-> payload]

\* IRN_RESPONSE_METADATA of each params module: the relay tag is named by the
\* constant of the module, the ttl of the pairing methods is 30 seconds.
IRN_RESPONSE_METADATA(method) ==
    [tag |-> <<"TAG", method, "RESPONSE">>, ttl |-> 30, prompt |-> FALSE]

\* impl_relay_protocol_metadata!(ResponseParamsError, response): the variant
\* of the payload picks the metadata.
irn_metadata(payload) == IRN_RESPONSE_METADATA(payload.method)

\* The unknown-error payload of each pairing request.
pair_delete_unknown == ResponseParamsError("PairDelete", ErrorParams_unknown)
pair_ping_unknown == ResponseParamsError("PairPing", ErrorParams_unknown)
pair_extend_unknown == ResponseParamsError("PairDelete", ErrorParams_unknown)

\* IntoUnknownError::unknown, by the type of the request.
unknown(method) ==
    CASE method = "PairDelete" -> pair_delete_unknown
      [] method = "PairPing" -> pair_ping_unknown
      [] method = "PairExtend" -> pair_extend_unknown

\* A spawned task: the function it runs, the request, the unknown reply it
\* was given, the response it holds and its position.
Task(fn, req, u) == [fn |-> fn, req |-> req, unknown |-> u, resp |-> None, pc |-> "start"]

TaskOf(id) == CHOOSE t \in tasks : t.req.id = id
Replace(t, new) == (tasks \ {t}) \cup {new}

\* An inbound request reaches the router's mailbox.
Receive(topic, method) ==
    /\ Len(received) < MaxRequests
    /\ LET req == RpcRequest(Len(received) + 1, topic, method)
       IN /\ received' = Append(received, req)
          /\ mailbox' = Append(mailbox, req)
    /\ UNCHANGED <<router, tasks, managers, mgr_mailbox, mgr_log, transport, published>>
    /\ UNCHANGED <<cipher_vars, manager_vars, wallet_vars, transport_vars>>

\* Handler<RegisterTopicManager>: spawn the manager with an unbounded mailbox
\* and insert its address.
RegisterTopicManager(topic) ==
    /\ router.pc = "idle"
    /\ topic \notin DOMAIN managers
    /\ managers' = Insert(managers, topic, "alive")
    /\ UNCHANGED <<mailbox, router, received, tasks, mgr_mailbox, mgr_log, transport,
                   published>>
    /\ UNCHANGED <<cipher_vars, manager_vars, wallet_vars, transport_vars>>

\* Handler<RpcRequest> up to its first await or its return.
RouterHandle ==
    /\ router.pc = "idle"
    /\ mailbox # <<>>
    /\ LET message == Head(mailbox)
           id == message.id
           topic == message.topic
       IN /\ mailbox' = Tail(mailbox)
          /\ CASE message.method = "PairDelete" ->
                    /\ tasks' = tasks \cup
                          {Task("handle_pair_delete_request", message,
                                RpcResponse(id, topic, pair_delete_unknown))}
                    /\ UNCHANGED <<router, transport>>
               [] message.method = "PairExtend" ->
                    /\ transport' = Append(transport,
                          [resp |-> RpcResponse(id, topic, ResponseParamsSuccess("PairExtend")),
                           from |-> 0])
                    /\ router' = [pc |-> "await_responder"]
                    /\ UNCHANGED tasks
               [] message.method = "PairPing" ->
                    /\ tasks' = tasks \cup
                          {Task("handle_pair_request", message,
                                RpcResponse(id, topic, pair_ping_unknown))}
                    /\ UNCHANGED <<router, transport>>
               [] OTHER -> UNCHANGED <<router, tasks, transport>>
    /\ UNCHANGED <<received, managers, mgr_mailbox, mgr_log, published>>
    /\ UNCHANGED <<cipher_vars, manager_vars, wallet_vars, transport_vars>>

\* handle_pair_delete_request, handle_pair_request: managers.get(&topic) and,
\* when a manager is registered, mgr.send(args); an absent or stopped manager
\* yields the unknown reply.
TaskSend(t) ==
    /\ t \in tasks
    /\ t.fn \in {"handle_pair_delete_request", "handle_pair_request"}
    /\ t.pc = "start"
    /\ LET topic == t.req.topic
       IN IF topic \in DOMAIN managers /\ managers[topic] = "alive"
          THEN /\ mgr_mailbox' = [mgr_mailbox EXCEPT ![topic] = Append(@, t.req)]
               /\ mgr_log' = [mgr_log EXCEPT ![topic] = Append(@, t.req.id)]
               /\ tasks' = Replace(t, [t EXCEPT !.pc = "await_mgr"])
          ELSE /\ tasks' = Replace(t, [t EXCEPT !.resp = Some(t.unknown), !.pc = "respond"])
               /\ UNCHANGED <<mgr_mailbox, mgr_log>>
    /\ UNCHANGED <<mailbox, router, received, managers, transport, published>>
    /\ UNCHANGED <<cipher_vars, manager_vars, wallet_vars, transport_vars>>

\* The PairingManager's handler of a pairing request returns its payload to
\* the task that awaits it.
MgrHandle(topic) ==
    /\ topic \in DOMAIN managers
    /\ managers[topic] = "alive"
    /\ mgr_mailbox[topic] # <<>>
    /\ LET req == Head(mgr_mailbox[topic])
           t == TaskOf(req.id)
           reply == RpcResponse(req.id, req.topic, ResponseParamsSuccess(req.method))
       IN /\ mgr_mailbox' = [mgr_mailbox EXCEPT ![topic] = Tail(@)]
          /\ tasks' = Replace(t, [t EXCEPT !.resp = Some(reply), !.pc = "respond"])
    /\ UNCHANGED <<mailbox, router, received, managers, mgr_log, transport, published>>
    /\ UNCHANGED <<cipher_vars, manager_vars, wallet_vars, transport_vars>>

\* The PairingManager stops: every mgr.send still awaited returns an error.
MgrStop(topic) ==
    /\ topic \in DOMAIN managers
    /\ managers[topic] = "alive"
    /\ managers' = [managers EXCEPT ![topic] = "stopped"]
    /\ mgr_mailbox' = [mgr_mailbox EXCEPT ![topic] = <<>>]
    /\ tasks' = {IF t.pc = "await_mgr" /\ t.req.topic = topic
                 THEN [t EXCEPT !.resp = Some(t.unknown), !.pc = "respond"]
                 ELSE t : t \in tasks}
    /\ UNCHANGED <<mailbox, router, received, mgr_log, transport, published>>
    /\ UNCHANGED <<cipher_vars, manager_vars, wallet_vars, transport_vars>>

\* responder.send(response): the response enters the transport's mailbox and
\* the task awaits its acceptance.
TaskRespond(t) ==
    /\ t \in tasks
    /\ t.pc = "respond"
    /\ transport' = Append(transport, [resp |-> Unwrap(t.resp), from |-> t.req.id])
    /\ tasks' = Replace(t, [t EXCEPT !.pc = "await_responder"])
    /\ UNCHANGED <<mailbox, router, received, managers, mgr_mailbox, mgr_log, published>>
    /\ UNCHANGED <<cipher_vars, manager_vars, wallet_vars, transport_vars>>

\* TransportActor accepts the response at the head of its mailbox; the sender
\* that awaited it goes on: a task ends, the router returns from its handler.
TransportHandle ==
    /\ transport # <<>>
    /\ LET m == Head(transport)
       IN /\ transport' = Tail(transport)
          /\ published' = Append(published, m.resp)
          /\ IF m.from = 0
             THEN /\ router' = [pc |-> "idle"]
                  /\ UNCHANGED tasks
             ELSE /\ tasks' = tasks \ {TaskOf(m.from)}
                  /\ UNCHANGED router
    /\ UNCHANGED <<mailbox, received, managers, mgr_mailbox, mgr_log>>
    /\ UNCHANGED <<cipher_vars, manager_vars, wallet_vars, transport_vars>>

NextRouter ==
    \/ \E topic \in RouterTopics, method \in RequestParams : Receive(topic, method)
    \/ \E topic \in RouterTopics : RegisterTopicManager(topic)
    \/ RouterHandle
    \/ \E t \in tasks : TaskSend(t)
    \/ \E topic \in RouterTopics : MgrHandle(topic)
    \/ \E topic \in RouterTopics : MgrStop(topic)
    \/ \E t \in tasks : TaskRespond(t)
    \/ TransportHandle

SpecRouter == Init /\ [][NextRouter]_vars


(* ------------------ pairing requests, generic dispatch ----------------- *)
\* The router hands a pairing request to handle_pair_mgr_request on a task of
\* its own; the requests of the other methods take no part here.
DispatchPairMgr ==
    /\ router.pc = "idle"
    /\ mailbox # <<>>
    /\ LET message == Head(mailbox)
       IN /\ mailbox' = Tail(mailbox)
          /\ tasks' = IF message.method \in PairMethods
                      THEN tasks \cup {Task("handle_pair_mgr_request", message,
                                            RpcResponse(message.id, message.topic,
                                                        unknown(message.method)))}
                      ELSE tasks
    /\ UNCHANGED <<router, received, managers, mgr_mailbox, mgr_log, transport, published>>
    /\ UNCHANGED <<cipher_vars, manager_vars, wallet_vars, transport_vars>>

\* handle_pair_mgr_request up to the await in internal_handle_pair_request:
\* without a manager (NoPairManager) or with a stopped one the error reaches
\* handle_pair_mgr_request, which has send_response post the unknown reply.
PairMgrSend(t) ==
    /\ t \in tasks
    /\ t.fn = "handle_pair_mgr_request"
    /\ t.pc = "start"
    /\ LET topic == t.req.topic
       IN IF topic \in DOMAIN managers /\ managers[topic] = "alive"
          THEN /\ mgr_mailbox' = [mgr_mailbox EXCEPT ![topic] = Append(@, t.req)]
               /\ mgr_log' = [mgr_log EXCEPT ![topic] = Append(@, t.req.id)]
               /\ tasks' = Replace(t, [t EXCEPT !.pc = "await_mgr"])
          ELSE /\ tasks' = Replace(t, [t EXCEPT !.resp = Some(t.unknown), !.pc = "respond"])
               /\ UNCHANGED <<mgr_mailbox, mgr_log>>
    /\ UNCHANGED <<mailbox, router, received, managers, transport, published>>
    /\ UNCHANGED <<cipher_vars, manager_vars, wallet_vars, transport_vars>>

NextPairMgr ==
    \/ \E topic \in RouterTopics, method \in RequestParams : Receive(topic, method)
    \/ \E topic \in RouterTopics : RegisterTopicManager(topic)
    \/ DispatchPairMgr
    \/ \E t \in tasks : PairMgrSend(t)
    \/ \E topic \in RouterTopics : MgrHandle(topic)
    \/ \E topic \in RouterTopics : MgrStop(topic)
    \/ \E t \in tasks : TaskRespond(t)
    \/ TransportHandle

SpecPairMgr == Init /\ [][NextPairMgr]_vars

(* --------------------------- pairing manager --------------------------- *)
\* Cipher::create_common_topic as a function of the store and the key table.
create_common_topic(st, c, controller_pk) ==
    LET k == pairing_key(st)
    IN IF ~IsSome(k)
       THEN [err |-> "NonExistingPairing", topic |-> 0, storage |-> st, ciphers |-> c]
       ELSE LET d == derive_sym_key(Unwrap(k), controller_pk)
            IN IF d.err # "Ok"
               THEN [err |-> d.err, topic |-> 0, storage |-> st, ciphers |-> c]
               ELSE [err |-> "Ok", topic |-> d.topic,
                     storage |-> update_sessions(st, controller_pk, d.topic),
                     ciphers |-> register(c, d.topic, d.key)]

\* The outcomes of a call on the relay.
RelayResults == {"Ok", "NetworkError"}

\* register_pk going on although the subscribe failed.
register_pk_ignores_subscribe(st, c, subs, pk, subscribed) ==
    LET r == create_common_topic(st, c, pk)
    IN IF r.err # "Ok"
       THEN [err |-> r.err, topic |-> 0, storage |-> st, ciphers |-> c, relay_subs |-> subs]
       ELSE [err |-> "Ok", topic |-> r.topic, storage |-> r.storage, ciphers |-> r.ciphers,
             relay_subs |-> IF subscribed = "Ok" THEN subs \cup {r.topic} ELSE subs]

\* PairingManager::register_pk: create the session key, then subscribe the
\* session topic; either step may fail and ends the call.
register_pk(st, c, subs, pk, subscribed) ==
    LET r == create_common_topic(st, c, pk)
    IN IF r.err # "Ok"
       THEN [err |-> r.err, topic |-> 0, storage |-> st, ciphers |-> c, relay_subs |-> subs]
       ELSE IF subscribed # "Ok"
            THEN [err |-> subscribed, topic |-> 0, storage |-> r.storage,
                  ciphers |-> r.ciphers, relay_subs |-> subs]
            ELSE [err |-> "Ok", topic |-> r.topic, storage |-> r.storage,
                  ciphers |-> r.ciphers, relay_subs |-> subs \cup {r.topic}]

\* PairingManager::register_dapp_pk, register_wallet_pk
RegisterPk(pk, subscribed) ==
    /\ LET r == register_pk(storage, ciphers, relay_subs, pk, subscribed)
       IN /\ storage' = r.storage
          /\ ciphers' = r.ciphers
          /\ relay_subs' = r.relay_subs
          /\ call' = [Call("register_pk", r.topic, r.err) EXCEPT !.arg = <<pk>>]
    /\ UNCHANGED <<pairing, now, del, router_vars, transport_vars, wallet_vars, registering>>

\* PairingManager::restore_saved_pairing. resubscribe() subscribes the topics
\* that have a key, in some order, and stops at the first failure
\* (resubscribed: the topics it reached); alive() is the outcome of the ping;
\* unsubscribed is the outcome of relay.unsubscribe of the pairing topic.
restore_saved_pairing(st, c, p, subs, resubscribed, alive, unsubscribed) ==
    IF ~IsSome(Pairing(st))
    THEN [err |-> "Ok", storage |-> st, ciphers |-> c, pairing |-> p, relay_subs |-> subs]
    ELSE IF resubscribed # subscriptions(c)
         THEN [err |-> "NetworkError", storage |-> st, ciphers |-> c, pairing |-> p,
               relay_subs |-> subs \cup resubscribed]
         ELSE IF alive
              THEN [err |-> "Ok", storage |-> st, ciphers |-> c, pairing |-> p,
                    relay_subs |-> subs \cup resubscribed]
              ELSE IF unsubscribed # "Ok"
                   THEN [err |-> unsubscribed, storage |-> st, ciphers |-> c,
                         pairing |-> p, relay_subs |-> subs \cup resubscribed]
                   ELSE LET r == set_pairing(st, c, p, None)
                        IN [err |-> "Ok", storage |-> r.storage, ciphers |-> r.ciphers,
                            pairing |-> r.pairing,
                            relay_subs |-> (subs \cup resubscribed)
                                              \ {Unwrap(Pairing(st)).topic}]

RestoreSavedPairing(resubscribed, alive, unsubscribed) ==
    /\ LET r == restore_saved_pairing(storage, ciphers, pairing, relay_subs,
                                      resubscribed, alive, unsubscribed)
       IN /\ storage' = r.storage
          /\ ciphers' = r.ciphers
          /\ pairing' = r.pairing
          /\ relay_subs' = r.relay_subs
          /\ call' = [Call("restore_saved_pairing",
                           IF IsSome(Pairing(storage))
                           THEN Unwrap(Pairing(storage)).topic ELSE 0, r.err)
                        EXCEPT !.arg = <<resubscribed, alive, unsubscribed>>]
    /\ UNCHANGED <<now, del, router_vars, transport_vars, wallet_vars, registering>>

\* The process starts anew: the cipher is rebuilt from the store and the
\* relay client holds no subscription.
Startup ==
    /\ LET r == CipherNew(storage, now)
       IN /\ storage' = r.storage
          /\ ciphers' = r.ciphers
          /\ pairing' = r.pairing
          /\ call' = Call("new", 0, r.err)
    /\ relay_subs' = {}
    /\ UNCHANGED <<now, del, router_vars, transport_vars, wallet_vars, registering>>

NextRestore ==
    \/ \E p \in Pairings : SetPairing(Some(p))
    \/ \E pk \in ControllerPks, subscribed \in RelayResults : RegisterPk(pk, subscribed)
    \/ Startup
    \/ \E resubscribed \in SUBSET subscriptions(ciphers), alive \in BOOLEAN,
          unsubscribed \in RelayResults :
          RestoreSavedPairing(resubscribed, alive, unsubscribed)

SpecRestore == Init /\ [][NextRestore]_vars

(* ------------------------ register_pk, stepwise ------------------------ *)
\* register_pk asking for the subscription before the key is registered.
register_pk_subscribes_first(st, c, pk) ==
    LET r == create_common_topic(st, c, pk)
    IN IF r.err # "Ok"
       THEN [err |-> r.err, storage |-> st, ciphers |-> c, subscribe |-> None]
       ELSE [err |-> "Ok", storage |-> r.storage, ciphers |-> c,
             subscribe |-> Some(r.topic)]

\* register_pk up to its await: create_common_topic(pk)? has derived the
\* session key, recorded the session and registered the key, or has ended the
\* call with its error; subscribe is the topic the call goes on to subscribe.
register_pk_key(st, c, pk) ==
    LET r == create_common_topic(st, c, pk)
    IN IF r.err # "Ok"
       THEN [err |-> r.err, storage |-> st, ciphers |-> c, subscribe |-> None]
       ELSE [err |-> "Ok", storage |-> r.storage, ciphers |-> r.ciphers,
             subscribe |-> Some(r.topic)]

\* register_wallet_pk, register_dapp_pk: the call up to self.subscribe(..).await
RegisterBegin(pk) ==
    /\ ~IsSome(registering)
    /\ LET r == register_pk_key(storage, ciphers, pk)
       IN /\ storage' = r.storage
          /\ ciphers' = r.ciphers
          /\ registering' = r.subscribe
          /\ call' = [Call("register_pk_key", 0, r.err) EXCEPT !.arg = <<pk>>]
    /\ UNCHANGED <<pairing, now, del, relay_subs, router_vars, transport_vars, wallet_vars>>

\* self.subscribe(session_topic.clone()).await? and the return of the topic
RegisterSubscribe(subscribed) ==
    /\ IsSome(registering)
    /\ relay_subs' = IF subscribed = "Ok" THEN relay_subs \cup {Unwrap(registering)}
                     ELSE relay_subs
    /\ registering' = None
    /\ call' = Call("register_pk", IF subscribed = "Ok" THEN Unwrap(registering) ELSE 0,
                    subscribed)
    /\ UNCHANGED <<storage, ciphers, pairing, now, del, router_vars, transport_vars,
                   wallet_vars>>

\* The calls one task makes on its manager, one after the other: a pairing
\* is set, sessions are registered and deleted.
NextRegister ==
    \/ \E p \in Pairings : ~IsSome(registering) /\ SetPairing(Some(p))
    \/ \E topic \in SessionTopics : ~IsSome(registering) /\ DeleteSession(topic)
    \/ \E pk \in ControllerPks : RegisterBegin(pk)
    \/ \E subscribed \in RelayResults : RegisterSubscribe(subscribed)

SpecRegister == Init /\ [][NextRegister]_vars

(* ------------------------- wallet settlement --------------------------- *)
\* The namespaces a settlement handler may settle on.
SettledNamespaces == {"solana:dev", "solana:main"}

\* chrono::Duration::hours(h), in seconds.
Hours(h) == h * 3600

\* now + chrono::Duration::hours(12): a settlement living half as long.
settlement_expiry_half(t_now) == t_now + Hours(12)

\* future.timestamp() with future = now + chrono::Duration::hours(24)
settlement_expiry(t_now) == t_now + Hours(24)

\* SessionSettleRequest { relay, controller, namespaces, expiry }
SessionSettleRequest(controller, namespaces, expiry) ==
    [controller |-> controller, namespaces |-> namespaces, expiry |-> expiry]

\* SessionSettled { topic, namespaces, expiry }
SessionSettledNs(topic, namespaces, expiry) ==
    [topic |-> topic, namespaces |-> namespaces, expiry |-> expiry]

\* Wallet::pair on a wallet that has no pairing yet: a waiter is parked for
\* the pairing topic, then the manager installs the pairing and subscribes
\* its topic.
WalletPair(p) ==
    /\ wallet.pc = "idle"
    /\ ~IsSome(Pairing(storage))
    /\ LET r == set_pairing(storage, ciphers, pairing, Some(p))
       IN /\ storage' = r.storage
          /\ ciphers' = r.ciphers
          /\ pairing' = r.pairing
    /\ relay_subs' = relay_subs \cup {p.topic}
    /\ waiter' = Some([topic |-> p.topic, session |-> None])
    /\ call' = Call("pair", p.topic, "Ok")
    /\ UNCHANGED <<now, del, router_vars, transport_vars, wallet, inflight, installed, registering>>

\* What the settlement actor may answer to SessionProposePublicKey: nothing
\* (the send fails), or (accepted, response).
ProposeResponses == {"Success(SessionPropose)", "Error(SessionPropose)"}
ProposeAnswers ==
    {[reached |-> FALSE, accepted |-> FALSE, response |-> "none"]}
        \cup {[reached |-> TRUE, accepted |-> a, response |-> r] :
                 a \in BOOLEAN, r \in ProposeResponses}

UserRejected == "Error(SessionPropose(UserRejected))"

\* The handler spawning the settlement whatever the actor said.
session_propose_spawns_unaccepted(pk, answer) ==
    IF ~IsSome(pk) THEN [spawn |-> FALSE, reply |-> UserRejected]
    ELSE IF answer.reached
         THEN [spawn |-> TRUE, reply |-> answer.response]
         ELSE [spawn |-> FALSE, reply |-> UserRejected]

\* Handler<SessionProposeRequest> for Wallet: without a pairing key the
\* reply is UserRejected; the actor's answer decides whether send_settlement
\* is spawned and is the reply; an actor that cannot be reached is UserRejected.
session_propose(pk, answer) ==
    IF ~IsSome(pk) THEN [spawn |-> FALSE, reply |-> UserRejected]
    ELSE IF answer.reached
         THEN [spawn |-> answer.accepted, reply |-> answer.response]
         ELSE [spawn |-> FALSE, reply |-> UserRejected]

WalletPropose(proposer, answer) ==
    /\ wallet.pc = "idle"
    /\ LET pk == public_key_hex(storage)
           r == session_propose(pk, answer)
       IN /\ wallet' = IF r.spawn
                       THEN [WalletIdle EXCEPT !.pc = "register",
                                               !.proposer = Some(proposer),
                                               !.public_key = pk]
                       ELSE wallet
          /\ call' = [Call("session_propose", 0, IF r.spawn THEN "Ok" ELSE "NotAccepted")
                        EXCEPT !.arg = <<answer>>, !.out = <<r.reply>>]
    /\ UNCHANGED <<storage, ciphers, pairing, now, del, router_vars, transport_vars,
                   manager_vars, inflight, installed, waiter>>

\* Wallet::send_settlement up to its first await: register_dapp_pk; an error
\* ends the task with a warning.
SettleRegister(subscribed) ==
    /\ wallet.pc = "register"
    /\ LET r == register_pk(storage, ciphers, relay_subs, Unwrap(wallet.proposer), subscribed)
       IN /\ storage' = r.storage
          /\ ciphers' = r.ciphers
          /\ relay_subs' = r.relay_subs
          /\ wallet' = IF r.err = "Ok"
                       THEN [wallet EXCEPT !.pc = "namespaces", !.topic = r.topic]
                       ELSE WalletIdle
          /\ call' = Call("register_dapp_pk", r.topic, r.err)
    /\ UNCHANGED <<pairing, now, del, router_vars, transport_vars, inflight, installed, waiter, registering>>

\* Wallet::send_settlement from the settlement handler's answer to the call of
\* pending.settled: the handler's error ends the task; its namespaces go, with
\* the expiry, into the request and into the SessionSettled.
SettleNamespaces(answer) ==
    /\ wallet.pc = "namespaces"
    /\ IF answer = "Err"
       THEN /\ wallet' = WalletIdle
            /\ call' = Call("send_settlement", wallet.topic, "Err")
       ELSE LET session_settlement ==
                    SessionSettleRequest(Unwrap(wallet.public_key), answer,
                                         settlement_expiry(now))
            IN /\ wallet' = [wallet EXCEPT
                               !.pc = "settled",
                               !.request = Some(session_settlement),
                               !.settled = Some(SessionSettledNs(wallet.topic, answer,
                                                    session_settlement.expiry))]
               /\ call' = Call("send_settlement", wallet.topic, "Ok")
    /\ UNCHANGED <<storage, ciphers, pairing, now, del, router_vars, transport_vars, manager_vars,
                   inflight, installed, waiter>>

\* PendingSession::settled for Category::Wallet, first part: the session is
\* installed and wc_sessionSettle is published on the session topic.
SettledPublish(published_ok) ==
    /\ wallet.pc = "settled"
    /\ installed' = wallet.settled
    /\ IF published_ok = "Ok"
       THEN /\ inflight' = Some([topic |-> wallet.topic, method |-> "wc_sessionSettle",
                                 params |-> Unwrap(wallet.request)])
            /\ wallet' = [wallet EXCEPT !.pc = "await_ack"]
       ELSE /\ wallet' = WalletIdle
            /\ UNCHANGED inflight
    /\ call' = Call("settled", wallet.topic, published_ok)
    /\ UNCHANGED <<storage, ciphers, pairing, now, del, router_vars, transport_vars, manager_vars, waiter>>

\* The answers of the dapp to wc_sessionSettle: true, false, an error, or
\* none in time.
SettleAnswers == {"true", "false", "UserRejected", "NoResponse"}

\* PendingSession::settled, second part: on Ok(true) the parked waiter is
\* fulfilled with the session; any other answer is an error of settled.
SettleAck(answer) ==
    /\ wallet.pc = "await_ack"
    /\ inflight' = None
    /\ waiter' = IF answer = "true" /\ IsSome(waiter)
                 THEN Some([Unwrap(waiter) EXCEPT !.session = wallet.settled])
                 ELSE waiter
    /\ wallet' = WalletIdle
    /\ call' = [Call("settle_ack", wallet.topic, IF answer = "true" THEN "Ok" ELSE answer)
                  EXCEPT !.arg = <<answer>>]
    /\ UNCHANGED <<storage, ciphers, pairing, now, del, router_vars, transport_vars, manager_vars,
                   installed>>

NextWallet ==
    \/ \E p \in Pairings : WalletPair(p)
    \/ \E proposer \in ControllerPks, answer \in ProposeAnswers :
          WalletPropose(proposer, answer)
    \/ \E subscribed \in RelayResults : SettleRegister(subscribed)
    \/ \E answer \in SettledNamespaces \cup {"Err"} : SettleNamespaces(answer)
    \/ \E published_ok \in RelayResults : SettledPublish(published_ok)
    \/ \E answer \in SettleAnswers : SettleAck(answer)
    \/ Tick

SpecWallet == Init /\ [][NextWallet]_vars

(* --------------------------- dapp settlement -------------------------- *)
\* The settlements a wallet may send: a session topic, namespaces, an expiry.
InboundSettlements ==
    {SessionSettledNs(t, ns, e) : t \in SessionTopics, ns \in SettledNamespaces, e \in Expiries}

\* PendingSession::settled for Category::Dapp: the session is installed and
\* the parked waiter fulfilled; installing may fail, and without a parked
\* waiter there is nothing to fulfil.
pending_settled(w, inst, settled, install) ==
    IF install # "Ok" THEN [err |-> install, installed |-> inst, waiter |-> w]
    ELSE IF ~IsSome(w) THEN [err |-> "NoPending", installed |-> Some(settled), waiter |-> w]
    ELSE [err |-> "Ok", installed |-> Some(settled),
          waiter |-> Some([Unwrap(w) EXCEPT !.session = Some(settled)])]

\* The handler answering true whatever process_settlement returned.
session_settle_reply_always_true(err) == ResponseParamsSuccess("SessionSettle")

\* Handler<SessionSettled> for Dapp: Ok(()) of process_settlement is
\* Success(SessionSettle(true)), an error is Error(SessionSettle(UserRejected)).
session_settle_reply(err) ==
    IF err = "Ok"
    THEN ResponseParamsSuccess("SessionSettle")
    ELSE ResponseParamsError("SessionSettle", "UserRejected")

\* The dapp proposes on a pairing topic: a waiter is parked for it.
DappPropose(topic) ==
    /\ waiter' = Some([topic |-> topic, session |-> None])
    /\ call' = Call("propose", topic, "Ok")
    /\ UNCHANGED <<storage, ciphers, pairing, now, del, router_vars, transport_vars,
                   manager_vars, wallet, inflight, installed>>

\* Handler<SessionSettled> for Dapp with Dapp::process_settlement.
DappSettled(settled, install) ==
    /\ LET r == pending_settled(waiter, installed, settled, install)
       IN /\ installed' = r.installed
          /\ waiter' = r.waiter
          /\ call' = [Call("session_settled", settled.topic, r.err)
                        EXCEPT !.arg = <<settled>>, !.out = <<session_settle_reply(r.err)>>]
    /\ UNCHANGED <<storage, ciphers, pairing, now, del, router_vars, transport_vars,
                   manager_vars, wallet, inflight>>

NextDapp ==
    \/ \E topic \in PairingTopics : DappPropose(topic)
    \/ \E settled \in InboundSettlements, install \in {"Ok", "InstallFailed"} :
          DappSettled(settled, install)

SpecDapp == Init /\ [][NextDapp]_vars

(* ------------- delete_session against create_common_topic ------------- *)
\* Bound: the create_common_topic calls made while one delete_session runs.
MaxOverlap == 1

\* delete_session(topic) begins on one thread: storage.delete(crypto-<topic>).
\* The state it started from and the calls made meanwhile are kept with it;
\* its positions 5 and 6 are the read and the write of the session list.
LinBegin(topic) ==
    /\ del = None
    /\ storage' = DeleteSessionKey(storage, topic)
    /\ del' = Some([topic |-> topic, pc |-> 5, read |-> None,
                    start |-> [storage |-> storage, ciphers |-> ciphers],
                    during |-> <<>>])
    /\ UNCHANGED <<ciphers, pairing, now, call, actor_vars>>

\* storage.get::<Vec<Topic>>(crypto-sessions): the list is read ...
LinRead ==
    /\ IsSome(del) /\ Unwrap(del).pc = 5
    /\ del' = Some([Unwrap(del) EXCEPT !.pc = 6, !.read = storage.sessions])
    /\ UNCHANGED <<storage, ciphers, pairing, now, call, actor_vars>>

\* ... and, when there was one, written back through filter(|t| t == topic).
LinWrite ==
    /\ IsSome(del) /\ Unwrap(del).pc = 6
    /\ storage' = IF IsSome(Unwrap(del).read)
                  THEN [storage EXCEPT !.sessions =
                           FilterSessions([storage EXCEPT !.sessions = Unwrap(del).read],
                                          Unwrap(del).topic).sessions]
                  ELSE storage
    /\ del' = Some([Unwrap(del) EXCEPT !.pc = 3])
    /\ UNCHANGED <<ciphers, pairing, now, call, actor_vars>>

\* Another thread, on a clone of the Cipher, creates a session topic other
\* than the one being deleted.
ConcurrentCreate(controller_pk) ==
    /\ IsSome(del)
    /\ Unwrap(del).pc \in {5, 6, 3, 4}
    /\ Len(Unwrap(del).during) < MaxOverlap
    /\ LET r == create_common_topic(storage, ciphers, controller_pk)
       IN /\ r.err = "Ok"
          /\ r.topic # Unwrap(del).topic
          /\ storage' = r.storage
          /\ ciphers' = r.ciphers
          /\ call' = Call("create_common_topic", r.topic, "Ok")
          /\ del' = Some([Unwrap(del) EXCEPT !.during = Append(@, controller_pk)])
    /\ UNCHANGED <<pairing, now, actor_vars>>

NextLin ==
    \/ \E p \in Pairings : del = None /\ SetPairing(Some(p))
    \/ \E pk \in ControllerPks : del = None /\ CreateCommonTopic(pk)
    \/ \E t \in KnownTopics : LinBegin(t)
    \/ LinRead
    \/ LinWrite
    \/ DeleteSettle
    \/ DeleteRemove
    \/ \E pk \in ControllerPks : ConcurrentCreate(pk)

SpecLin == Init /\ [][NextLin]_vars

(* ------------------------ response correlation ------------------------ *)
\* The message ids of outbound requests.
MessageIds == 1..MaxRequests

\* Matching on the message id alone.
correlate_by_id(pk, topic, id) == {k \in pk : k[2] = id}

\* The parked completions an inbound response (topic, id) matches: the map is
\* keyed by (topic, message id).
correlate(pk, topic, id) == {k \in pk : k = <<topic, id>>}

\* An outbound request is published and its one-shot completion is parked.
Park(topic, id) ==
    /\ <<topic, id>> \notin parked
    /\ parked' = parked \cup {<<topic, id>>}
    /\ call' = [Call("request", topic, "Ok") EXCEPT !.arg = <<id>>]
    /\ UNCHANGED <<storage, ciphers, pairing, now, del, router_vars, manager_vars,
                   wallet_vars>>

\* An inbound response: the completions it matches are woken and removed; a
\* response that matches none is logged and dropped.
Response(topic, id) ==
    /\ LET woken == correlate(parked, topic, id)
       IN /\ parked' = parked \ woken
          /\ call' = [Call("response", topic, IF woken = {} THEN "dropped" ELSE "Ok")
                        EXCEPT !.arg = <<id>>, !.out = <<woken>>]
    /\ UNCHANGED <<storage, ciphers, pairing, now, del, router_vars, manager_vars,
                   wallet_vars>>

\* The timeout of a parked request fires: OperationTimedOut, the entry is
\* removed.
Timeout(topic, id) ==
    /\ <<topic, id>> \in parked
    /\ parked' = parked \ {<<topic, id>>}
    /\ call' = [Call("timeout", topic, "OperationTimedOut") EXCEPT !.arg = <<id>>]
    /\ UNCHANGED <<storage, ciphers, pairing, now, del, router_vars, manager_vars,
                   wallet_vars>>

NextCorrelate ==
    \/ \E topic \in RouterTopics, id \in MessageIds : Park(topic, id)
    \/ \E topic \in RouterTopics, id \in MessageIds : Response(topic, id)
    \/ \E topic \in RouterTopics, id \in MessageIds : Timeout(topic, id)

SpecCorrelate == Init /\ [][NextCorrelate]_vars

(* ------------------------------ properties ---------------------------- *)
\* The topics of a session list.
ListedIn(st) ==
    IF IsSome(st.sessions)
    THEN {Unwrap(st.sessions)[i] : i \in DOMAIN Unwrap(st.sessions)}
    ELSE {}

\* A session created under the stored pairing and not deleted since has its
\* controller key persisted; its settlement is expired when expiry < now.
ExpiredSession(st, t, t_now) ==
    /\ IsSome(st.pairingtopic)
    /\ IsSome(st.key[t])
    /\ IsSome(st.settlement[t])
    /\ Unwrap(st.settlement[t]).expiry < t_now

\* C1: expiry recovery. When some created session t, whichever it is, has a
\* persisted settlement with expiry < now, a new Cipher over the same store
\* has pairing() == None and settlements() == [].
C1_ExpiryRecovery ==
    [][(New /\ \E t \in SessionTopics : ExpiredSession(storage, t, now))
          => /\ Pairing(storage') = None
             /\ settlements(storage', ciphers', pairing') = <<>>]_vars

\* Cipher::new found an expired session: its loop over the persisted session
\* list stopped on one.
FoundExpired(st, t_now) ==
    /\ IsSome(st.pairingtopic)
    /\ IsSome(st.sessions)
    /\ InitSessions(st, EmptyMap, Unwrap(st.pairingtopic).sym_key,
                    Unwrap(st.sessions), t_now).session_expired

\* C2: when Cipher::new finds an expired session the cipher it returns is
\* empty: the store is cleared, no topic has an AEAD key (so encode on the
\* former pairing topic is UnknownTopic) and the pairing map is empty.
C2_ExpiredRestoreEmpty ==
    [][(New /\ FoundExpired(storage, now))
          => /\ storage' = EmptyStorage
             /\ subscriptions(ciphers') = {}
             /\ \A t \in PairingTopics : cipher_lookup(ciphers', t) = "UnknownTopic"
             /\ DOMAIN pairing' = {}]_vars

\* No persisted settlement is expired.
NoneExpired(st, t_now) ==
    \A t \in Topics : IsSome(st.settlement[t]) => ~(Unwrap(st.settlement[t]).expiry < t_now)

\* The AEAD table a complete restore builds: the pairing key, and the derived
\* key of every session whose controller key is persisted (created and not
\* deleted since the pairing was installed).
CompleteTable(st) ==
    LET p == Unwrap(st.pairingtopic)
        live == {t \in Topics : IsSome(st.key[t])}
    IN [t \in {p.topic} \cup live |->
            IF t = p.topic THEN p.sym_key
            ELSE derive_sym_key(p.sym_key, Unwrap(st.key[t])).key]

\* C3: restore completeness. With a pairing installed and no expired
\* settlement, a new Cipher over the same store has an AEAD key for the
\* pairing topic and for every session created and not deleted.
C3_RestoreComplete ==
    [][(New /\ IsSome(storage.pairingtopic) /\ NoneExpired(storage, now))
          => ciphers' = CompleteTable(storage)]_vars

\* C4: create_common_topic appends to the persisted session list: after a
\* successful call the list holds the new topic and every topic it held
\* before, and crypto-<topic> holds the controller key.
C4_CreateAppends ==
    [][\A pk \in ControllerPks :
          (CreateCommonTopic(pk) /\ call'.ret = "Ok")
             => /\ ListedIn(storage) \cup {call'.topic} \subseteq ListedIn(storage')
                /\ storage'.key[call'.topic] = Some(pk)]_vars

\* C5: after a successful delete_session(t) the AEAD key of t is gone (encode
\* and decode on t are UnknownTopic) and neither crypto-<t> nor
\* crypto-settlement-<t> is persisted.
C5_DeleteRemovesRecords ==
    (call.op = "delete_session" /\ call.ret = "Ok")
       => /\ call.topic \notin subscriptions(ciphers)
          /\ cipher_lookup(ciphers, call.topic) = "UnknownTopic"
          /\ storage.key[call.topic] = None
          /\ storage.settlement[call.topic] = None

\* A delete_session of a session that had an AEAD key and the only
\* settlement record has returned.
C5_Witness ==
    /\ call.op = "delete_session" /\ call.ret = "Ok"
    /\ call.topic \in SessionTopics
    /\ call.topic \in ListedIn(storage)
    /\ call.before.keys = 2
    /\ call.before.settled = 1
    /\ Cardinality(subscriptions(ciphers)) = 1
    /\ \A t \in Topics : storage.settlement[t] = None

\* C6: delete_session(t) filters t out of the persisted session list: after
\* it the list does not hold t and still holds every other topic it held.
C6_DeleteFiltersOut ==
    [][\A t \in Topics :
          DeleteSession(t)
             => /\ t \notin ListedIn(storage')
                /\ ListedIn(storage) \ {t} \subseteq ListedIn(storage')]_vars

\* What a session has in the keystore.
HasAead(c, t) == t \in DOMAIN c
HasKeyRecord(st, t) == IsSome(st.key[t])
HasSettlement(st, t) == IsSome(st.settlement[t])
IsListed(st, t) == t \in ListedIn(st)

\* C7: delete_session is atomic for a caller sharing the Cipher: no step of
\* a delete_session(t) in progress takes away some of t's AEAD key,
\* controller-key record, session-list entry and settlement record while
\* leaving another of them in place.
C7_DeleteAtomic ==
    [][\A t \in Topics :
          (/\ del' # del
           /\ \/ (IsSome(del) /\ Unwrap(del).topic = t)
              \/ (IsSome(del') /\ Unwrap(del').topic = t)
           /\ \/ (HasAead(ciphers, t) /\ ~HasAead(ciphers', t))
              \/ (HasKeyRecord(storage, t) /\ ~HasKeyRecord(storage', t))
              \/ (HasSettlement(storage, t) /\ ~HasSettlement(storage', t))
              \/ (IsListed(storage, t) /\ ~IsListed(storage', t)))
             => /\ ~HasAead(ciphers', t)
                /\ ~HasKeyRecord(storage', t)
                /\ ~HasSettlement(storage', t)
                /\ ~IsListed(storage', t)]_vars

\* C8: set_pairing(Some(p)) replaces all prior state: the AEAD table holds
\* exactly p.topic, pairing() is p and the store holds crypto-pairingtopic
\* and nothing else; set_pairing(None) leaves table, pairing and store empty.
C8_SetPairingReplaces ==
    [][\A opt \in {None} \cup {Some(p) : p \in Pairings} :
          SetPairing(opt)
             => /\ call'.ret = "Ok"
                /\ IF IsSome(opt)
                   THEN /\ subscriptions(ciphers') = {Unwrap(opt).topic}
                        /\ Pairing(storage') = opt
                        /\ storage' = [EmptyStorage EXCEPT !.pairingtopic = opt]
                   ELSE /\ subscriptions(ciphers') = {}
                        /\ DOMAIN pairing' = {}
                        /\ Pairing(storage') = None
                        /\ storage' = EmptyStorage]_vars

\* set_pairing(Some(p)) has returned after being called on a keystore that
\* held the AEAD keys of a pairing and of two sessions and a settlement.
C8_Witness ==
    /\ call.op = "set_pairing" /\ call.ret = "Ok"
    /\ call.topic \in PairingTopics
    /\ call.before.keys = 3
    /\ call.before.settled >= 1
    /\ subscriptions(ciphers) = {call.topic}

\* C9: reset() leaves the AEAD table, the pairing map and the store empty,
\* and a reset() that follows a reset() changes none of them.
C9_ResetIdempotent ==
    [][Reset => /\ ciphers' = EmptyMap
                /\ pairing' = EmptyMap
                /\ storage' = EmptyStorage
                /\ (call.op = "reset" => UNCHANGED <<storage, ciphers, pairing>>)]_vars

\* reset() has returned after being called on a keystore that held AEAD keys
\* and a settlement.
C9_Witness ==
    /\ call.op = "reset"
    /\ call.before.keys >= 2
    /\ call.before.settled >= 1
    /\ ciphers = EmptyMap /\ pairing = EmptyMap /\ storage = EmptyStorage

\* C10: in every state reached through new, set_pairing, create_common_topic,
\* delete_session and reset the pairing map holds at most one entry, and the
\* one it holds is the pairing persisted under crypto-pairingtopic.
C10_OnePairing ==
    /\ Cardinality(DOMAIN pairing) <= 1
    /\ \A t \in DOMAIN pairing :
          /\ IsSome(Pairing(storage))
          /\ pairing[t] = Unwrap(Pairing(storage))
          /\ t = pairing[t].topic

\* A new Cipher has restored the persisted pairing and a session of it, over
\* a keystore that held more AEAD keys than the restore brought back.
C10_Witness ==
    /\ call.op = "new"
    /\ call.before.keys = 3
    /\ Cardinality(DOMAIN pairing) = 1
    /\ Cardinality(subscriptions(ciphers)) = 2
    /\ IsSome(Pairing(storage))

\* C11: invariant I1, no orphan AEAD keys. In every reachable state, the
\* state right after a restore included, each topic with an AEAD key is the
\* topic of the pairing pairing() returns or has a persisted crypto-<t>.
C11_NoOrphanKeys ==
    \A t \in subscriptions(ciphers) :
        \/ (IsSome(Pairing(storage)) /\ Unwrap(Pairing(storage)).topic = t)
        \/ IsSome(storage.key[t])

\* C12: invariant I3, no live topic without a key. In every reachable state
\* the topic of the persisted pairing and every topic listed under
\* crypto-sessions has an AEAD key in the cipher table.
C12_LiveTopicsHaveKey ==
    /\ IsSome(Pairing(storage)) => Unwrap(Pairing(storage)).topic \in DOMAIN ciphers
    /\ \A t \in ListedIn(storage) : t \in DOMAIN ciphers

\* C13: create_common_topic fails without side effects. With no pairing it
\* returns NonExistingPairing, with a controller key that does not decode to
\* 32 bytes it returns an error (InvalidKeyLength for a wrong length), and
\* in both cases the AEAD table and the store are as they were.
C13_CreateFailsClean ==
    [][\A pk \in ControllerPks :
          CreateCommonTopic(pk)
             => /\ ~IsSome(Pairing(storage)) => call'.ret = "NonExistingPairing"
                /\ (IsSome(Pairing(storage)) /\ pk = ShortHex) => call'.ret = "InvalidKeyLength"
                /\ (IsSome(Pairing(storage)) /\ pk = NotHex) => call'.ret = "DecodeError"
                /\ call'.ret # "Ok" => (storage' = storage /\ ciphers' = ciphers)]_vars

\* create_common_topic has returned InvalidKeyLength on a keystore that
\* holds a pairing and a session.
C13_Witness ==
    /\ call.op = "create_common_topic"
    /\ call.ret = "InvalidKeyLength"
    /\ call.before.keys = 2
    /\ Cardinality(subscriptions(ciphers)) = 2
    /\ IsSome(Pairing(storage))
    /\ ListedIn(storage) # {}

\* C14: encode and encode_with_params on a topic that has no AEAD key return
\* UnknownTopic for that topic, produce no envelope and change neither the
\* store nor the key table nor the pairing; delete_session leaves its topic
\* without a key, reset leaves every topic without one, and set_pairing
\* leaves every topic but the new pairing topic without one.
C14_EncodeUnknownTopic ==
    [][/\ \A t \in Topics :
              (/\ cipher_lookup(ciphers, t) = "UnknownTopic"
               /\ call'.op = "encode" /\ call'.topic = t
               /\ \E x \in Payloads, n \in Nonces, ty \in Types : Encode(t, x, n, ty))
                 => /\ call'.ret = "UnknownTopic" /\ call'.out = None
                    /\ storage' = storage /\ ciphers' = ciphers /\ pairing' = pairing
       /\ \A t \in Topics :
              (call'.op = "delete_session" /\ DeleteSession(t))
                 => cipher_lookup(ciphers', t) = "UnknownTopic"
       /\ (call'.op = "reset" /\ Reset)
             => \A t \in Topics : cipher_lookup(ciphers', t) = "UnknownTopic"
       /\ \A p \in Pairings :
              (call'.op = "set_pairing" /\ SetPairing(Some(p)))
                 => \A t \in Topics \ {p.topic} : cipher_lookup(ciphers', t) = "UnknownTopic"]_vars

\* An encode refused on a session topic that is still in the session list:
\* its key was removed by delete_session.
C14_Witness ==
    /\ call.op = "encode" /\ call.ret = "UnknownTopic"
    /\ call.topic \in ListedIn(storage)
    /\ call.topic \notin subscriptions(ciphers)
    /\ subscriptions(ciphers) # {}

\* C15: a type-0 envelope that encode or encode_with_params produced on a
\* topic, under any nonce, is decoded on that topic to the payload that was
\* encoded.
C15_RoundTrip ==
    [][\A t \in Topics :
          (/\ call.op = "encode" /\ call.ret = "Ok" /\ call.topic = t
           /\ call.arg.type = Type0
           /\ Decode(t, Unwrap(call.out)))
             => (call'.ret = "Ok" /\ call'.out = Some(call.arg.payload))]_vars

\* A decode that returned the second payload on a session topic.
C15_Witness ==
    /\ call.op = "decode" /\ call.ret = "Ok" /\ call.out = Some(2)
    /\ call.topic \in SessionTopics
    /\ call.topic \in subscriptions(ciphers)

\* C16: a type-1 envelope that encode_with_params produced on a topic is
\* decoded on that topic to the payload that was encoded.
C16_Type1RoundTrip ==
    [][\A t \in Topics :
          (/\ call.op = "encode" /\ call.ret = "Ok" /\ call.topic = t
           /\ call.arg.type.tag = 1
           /\ Decode(t, Unwrap(call.out)))
             => (call'.ret = "Ok" /\ call'.out = Some(call.arg.payload))]_vars

\* A type-1 envelope whose 32 bytes after the type byte are no verifying key.
InvalidSenderKey(w) ==
    LET b == Base64Decode(w)
    IN /\ b.err = "Ok" /\ Len(b.bytes) >= 1 + KeyLen /\ b.bytes[1] = 1
       /\ ~IsSome(VerifyingKeyFromBytes(SubBytes(b.bytes, 1, 1 + KeyLen)))

\* C17: decode of a type-1 envelope whose sender key is no valid verifying
\* key returns the error CorruptedPayload and no payload.
C17_InvalidSenderRejected ==
    [][\A t \in Topics :
          \A w \in {v \in ReceivedWires : InvalidSenderKey(v)} :
              (call'.op = "decode" /\ Decode(t, w))
                 => (call'.ret = "CorruptedPayload" /\ call'.out = None)]_vars

\* C18: on a topic that has an AEAD key, decode of an envelope with no
\* bytes, with an unknown type byte, or too short for its type byte, sender
\* key and nonce returns the error CorruptedPayload.
C18_MalformedIsError ==
    [][\A t \in subscriptions(ciphers), w \in TruncatedWires :
          (call'.op = "decode" /\ Decode(t, w)) => call'.ret = "CorruptedPayload"]_vars

C20_ExpiredStrictly ==
    [][\A t \in Topics :
          (call'.op = "is_expired" /\ IsExpired(t))
             => /\ IsSome(storage.settlement[t])
                   => /\ call'.ret = "Ok"
                      /\ call'.out = Some(Unwrap(storage.settlement[t]).expiry < now)
                      /\ Unwrap(storage.settlement[t]).expiry = now => call'.out = Some(FALSE)
                /\ ~IsSome(storage.settlement[t])
                   => (call'.ret = "UnknownSessionTopic" /\ call'.out = None)]_vars

\* is_expired answered false for a session whose expiry is the current
\* time, after time has passed.
C20_Witness ==
    /\ call.op = "is_expired" /\ call.ret = "Ok" /\ call.out = Some(FALSE)
    /\ now > 0
    /\ IsSome(storage.settlement[call.topic])
    /\ Unwrap(storage.settlement[call.topic]).expiry = now

\* A session of the persisted list whose settlement satisfies the test.
ListedWith(st, Test(_)) ==
    \E t \in ListedIn(st) : IsSome(st.settlement[t]) /\ Test(Unwrap(st.settlement[t]).expiry)

\* C21 as stated: a listed session is valid only while now < expiry, so a
\* restore over a persisted pairing that finds a listed session with
\* expiry <= now, in particular expiry = now, clears the persisted store.
C21_ValidBeforeExpiry ==
    [][(/\ call'.op = "new" /\ New
        /\ IsSome(Pairing(storage))
        /\ LET NotValid(expiry) == ~(now < expiry) IN ListedWith(storage, NotValid))
          => storage' = EmptyStorage]_vars

\* C21 as amended: a listed session is valid while now <= expiry; a restore
\* over a persisted pairing clears the persisted store exactly when a listed
\* session has expiry < now, and leaves the store as it is otherwise, also
\* when a listed session has expiry = now.
C21_ValidUntilExpiry ==
    [][(/\ call'.op = "new" /\ New
        /\ IsSome(Pairing(storage)))
          => LET Expired(expiry) == expiry < now
             IN IF ListedWith(storage, Expired)
                THEN storage' = EmptyStorage
                ELSE storage' = storage]_vars

\* A restore, after time has passed, that kept a session whose expiry is
\* the current time.
C21_Witness ==
    /\ call.op = "new" /\ call.ret = "Ok"
    /\ now > 0
    /\ IsSome(Pairing(storage))
    /\ LET AtExpiry(expiry) == expiry = now IN ListedWith(storage, AtExpiry)
    /\ ListedIn(storage) \subseteq subscriptions(ciphers)

\* C22: a restart over a store whose pairing record, session list or
\* controller-key records are corrupt, and that reads a corrupt record,
\* succeeds and returns a cipher with no AEAD key and no pairing over a
\* cleared store.
C22_CorruptStoreResets ==
    [][\A corrupt \in RecordKinds :
          (/\ call'.op = "new" /\ NewCorrupt(corrupt)
           /\ CASE corrupt = "pairingtopic" -> IsSome(storage.pairingtopic)
                [] corrupt = "sessions" -> IsSome(storage.pairingtopic) /\ IsSome(storage.sessions)
                [] corrupt = "key" -> /\ IsSome(storage.pairingtopic)
                                      /\ \E t \in ListedIn(storage) : IsSome(storage.key[t])
                                      /\ ~FoundExpired(storage, now))
             => /\ call'.ret = "Ok"
                /\ storage' = EmptyStorage
                /\ subscriptions(ciphers') = {}
                /\ DOMAIN pairing' = {}
                /\ Pairing(storage') = None]_vars

\* C23: when the write of the pairing record inside set_pairing(Some(p))
\* fails, the error is returned and the cipher has no AEAD key and no
\* in-memory pairing, neither for p nor for the pairing before.
C23_SetPairingFailsReset ==
    [][\A p \in Pairings :
          (call'.op = "set_pairing" /\ SetPairingWriteFails(p))
             => /\ call'.ret = "StorageError"
                /\ subscriptions(ciphers') = {}
                /\ DOMAIN pairing' = {}
                /\ \A t \in Topics : cipher_lookup(ciphers', t) = "UnknownTopic"]_vars

\* A failed set_pairing on a cipher that held a pairing and a session key.
C23_Witness ==
    /\ call.op = "set_pairing" /\ call.ret = "StorageError"
    /\ call.before.keys = 2
    /\ subscriptions(ciphers) = {}

\* C25: the router never blocks on a handler: while a request waits in its
\* mailbox the RpcRequest handler is not suspended on the transport's
\* acceptance of a response (nor on a manager's reply).
C25_RouterNeverBlocks == mailbox # <<>> => router.pc = "idle"

\* C26: requests received on one topic reach the pairing manager of the topic
\* in the order of their receipt (ids rise along the manager's log).
C26_PerTopicOrder ==
    \A topic \in RouterTopics :
        \A i, j \in DOMAIN mgr_log[topic] :
            i < j => mgr_log[topic][i] < mgr_log[topic][j]


\* An unknown-error reply: ErrorParams { code: 1, message: "Unknown Error" }.
IsUnknownReply(resp) ==
    resp.payload.kind = "Error" /\ resp.payload.params = ErrorParams_unknown

\* C24: the reply to a failed pairing request (ping, extend, delete) is an
\* unknown-error reply typed with the method of the request, and its relay
\* tag is the response tag of that method.
C24_UnknownReplyTyped ==
    \A i \in DOMAIN published :
        LET resp == published[i]
            method == received[resp.id].method
        IN IsUnknownReply(resp) =>
              /\ resp.payload.method = method
              /\ irn_metadata(resp.payload).tag = IRN_RESPONSE_METADATA(method).tag


\* restore_saved_pairing has just run on a stored pairing, every topic was
\* resubscribed and the liveness ping failed.
RestoredDeadPeer ==
    /\ call'.op = "restore_saved_pairing"
    /\ IsSome(Pairing(storage))
    /\ call'.arg[1] = subscriptions(ciphers)
    /\ call'.arg[2] = FALSE

\* C27: a startup restore whose liveness ping fails returns to the None
\* state: afterwards (here with the relay's unsubscribe succeeding) the
\* cipher has no pairing and no AEAD key, the store is cleared, and neither
\* the pairing topic nor any resubscribed session topic is still subscribed.
C27_DeadPeerReturnsToNone ==
    [][(RestoredDeadPeer /\ call'.arg[3] = "Ok") =>
          /\ pairing' = EmptyMap
          /\ ciphers' = EmptyMap
          /\ storage' = EmptyStorage
          /\ relay_subs' \cap (call'.arg[1] \cup {call'.topic}) = {}]_vars

\* C28: whenever the restored pairing's peer is found not alive,
\* restore_saved_pairing returns Ok and the pairing is cleared, also when
\* the relay's unsubscribe fails.
C28_DeadPeerNotFatal ==
    [][RestoredDeadPeer =>
          /\ call'.ret = "Ok"
          /\ pairing' = EmptyMap
          /\ ~IsSome(Pairing(storage'))]_vars

\* The waiter has just been given a session it did not hold before.
WaiterFulfilled ==
    /\ waiter' # waiter
    /\ IsSome(waiter')
    /\ IsSome(Unwrap(waiter').session)

\* wc_sessionSettle has just been published.
SettlePublished ==
    /\ inflight' # inflight
    /\ IsSome(inflight')

\* C29: the wallet publishes wc_sessionSettle only on a session topic whose
\* AEAD key exists and which is subscribed (the proposer's key was registered
\* first), and the pending waiter is fulfilled only by the dapp's answer true
\* to the published settle, with the session of that topic; a step that fails
\* before leaves the waiter as it was.
C29_SettlementOrder ==
    [][/\ SettlePublished =>
            /\ wallet.pc = "settled"
            /\ Unwrap(inflight').topic \in DOMAIN ciphers
            /\ Unwrap(inflight').topic \in relay_subs
            /\ Unwrap(inflight').topic =
                  derive_sym_key(Unwrap(pairing_key(storage)), Unwrap(wallet.proposer)).topic
       /\ WaiterFulfilled =>
            /\ IsSome(inflight)
            /\ call'.op = "settle_ack"
            /\ call'.arg = <<"true">>
            /\ Unwrap(Unwrap(waiter').session).topic = Unwrap(inflight).topic
       /\ (wallet.pc # "idle" /\ wallet' # wallet /\ call'.ret # "Ok") =>
            /\ waiter' = waiter
            /\ wallet'.pc = "idle"]_vars

C29_Witness ==
    /\ call.op = "settle_ack"
    /\ call.ret = "Ok"
    /\ IsSome(waiter)
    /\ IsSome(Unwrap(waiter).session)
    /\ Unwrap(Unwrap(waiter).session).topic \in relay_subs

\* C30: the settlement is made with expiry = the time it is made + 24 hours
\* in seconds; the SessionSettled installed has the expiry and the namespaces
\* of the wc_sessionSettle request that is sent, and its topic is the session
\* topic derived from the proposer's public key.
C30_SettlementExpiry ==
    [][/\ (wallet.pc = "namespaces" /\ call'.op = "send_settlement" /\ call'.ret = "Ok") =>
            /\ Unwrap(wallet'.request).expiry = now + 24 * 60 * 60
            /\ Unwrap(wallet'.settled).expiry = Unwrap(wallet'.request).expiry
       /\ (wallet.pc = "settled" /\ call'.op = "settled" /\ call'.ret = "Ok") =>
            LET request == Unwrap(inflight').params
                settled == Unwrap(installed')
            IN /\ request = Unwrap(wallet.request)
               /\ settled.expiry = request.expiry
               /\ settled.namespaces = request.namespaces
               /\ settled.topic = Unwrap(inflight').topic
               /\ settled.topic =
                     derive_sym_key(Unwrap(pairing_key(storage)),
                                    Unwrap(wallet.proposer)).topic]_vars

C30_Witness ==
    /\ call.op = "settled"
    /\ call.ret = "Ok"
    /\ IsSome(inflight)
    /\ IsSome(installed)
    /\ Unwrap(installed).expiry = MaxNow + 24 * 60 * 60
    /\ Unwrap(installed).namespaces = Unwrap(inflight).params.namespaces

Posted == published \o [i \in DOMAIN transport |-> transport[i].resp]

\* The ids of the requests a topic's pairing manager was sent.
SentToManager(topic) == {mgr_log[topic][i] : i \in DOMAIN mgr_log[topic]}

\* C32: a pairing request gets exactly one response posted to the transport
\* actor, with its id and topic: the manager's payload when the manager
\* answered, the unknown-error payload when the manager call failed or no
\* manager is registered. Here the part a finite run decides: never two
\* responses for one request, each with the request's topic, and a success
\* payload only for a request the topic's manager was sent.
C32_OneResponsePerPairRequest ==
    /\ \A i, j \in DOMAIN Posted : Posted[i].id = Posted[j].id => i = j
    /\ \A i \in DOMAIN Posted :
          LET resp == Posted[i]
              req == received[resp.id]
          IN /\ req.method \in PairMethods
             /\ resp.topic = req.topic
             /\ resp.payload.kind = "Success" => resp.id \in SentToManager(req.topic)
             /\ resp.payload.kind = "Error" => IsUnknownReply(resp)

\* The router has just taken a session request from its mailbox.
SessionRequestHandled ==
    /\ mailbox # <<>>
    /\ Head(mailbox).method \in SessionMethods
    /\ mailbox' = Tail(mailbox)

\* C33: the router forwards every session request to a handler: handling it
\* spawns a dispatch or sends a message to some actor, it is never dropped
\* without a trace.
C33_SessionRequestsDispatched ==
    [][SessionRequestHandled =>
          \/ tasks' # tasks
          \/ transport' # transport
          \/ mgr_mailbox' # mgr_mailbox]_vars

\* The wallet's handler of wc_sessionPropose has just returned.
ProposeHandled == wallet.pc = "idle" /\ call' # call /\ call'.op = "session_propose"

\* C34: the wallet starts a settlement only for a proposal the settlement
\* actor accepted. Without a pairing key, with the actor out of reach or with
\* a proposal not accepted no settlement task starts and no session topic is
\* made; the reply is UserRejected without a key or without the actor, and
\* the actor's response otherwise. The reply is returned before the spawned
\* settlement has taken a step: the handler itself makes no key, no
\* subscription and no wc_sessionSettle.
C34_SettleOnlyAccepted ==
    [][ProposeHandled =>
          LET answer == call'.arg[1]
              reply == call'.out[1]
              has_key == IsSome(public_key_hex(storage))
              accepted == has_key /\ answer.reached /\ answer.accepted
          IN /\ wallet'.pc = (IF accepted THEN "register" ELSE "idle")
             /\ (~has_key \/ ~answer.reached) => reply = UserRejected
             /\ (has_key /\ answer.reached) => reply = answer.response
             /\ ciphers' = ciphers
             /\ storage' = storage
             /\ relay_subs' = relay_subs
             /\ inflight' = inflight]_vars

C34_Witness ==
    /\ call.op = "session_propose"
    /\ call.out = <<"Error(SessionPropose)">>
    /\ ~call.arg[1].accepted
    /\ wallet.pc = "idle"
    /\ IsSome(public_key_hex(storage))

\* C35: delete_session(t) changes nothing that belongs to another topic: the
\* pairing, and for every topic u # t the AEAD key, the crypto-<u> record,
\* the settlement record and the entry in crypto-sessions are as before.
C35_DeleteFrame ==
    [][(call'.op = "delete_session" /\ now' = now) =>
          /\ pairing' = pairing
          /\ storage'.pairingtopic = storage.pairingtopic
          /\ \A u \in Topics \ {call'.topic} :
                /\ (u \in DOMAIN ciphers) = (u \in DOMAIN ciphers')
                /\ u \in DOMAIN ciphers => ciphers'[u] = ciphers[u]
                /\ storage'.key[u] = storage.key[u]
                /\ storage'.settlement[u] = storage.settlement[u]
                /\ IsListed(storage', u) = IsListed(storage, u)]_vars

\* The store and the AEAD table after create_common_topic was called with
\* each controller key of a sequence, one call after the other.
RECURSIVE CreatesInTurn(_, _, _)
CreatesInTurn(st, c, pks) ==
    IF pks = <<>> THEN [storage |-> st, ciphers |-> c]
    ELSE LET r == create_common_topic(st, c, Head(pks))
         IN CreatesInTurn(r.storage, r.ciphers, Tail(pks))

\* The AEAD table and the session list of the sequential order in which
\* delete_session(topic) comes after the first k of the creates.
Sequentially(start, topic, during, k) ==
    LET a == CreatesInTurn(start.storage, start.ciphers, SubSeq(during, 1, k))
        b == delete_session(a.storage, a.ciphers, topic)
        z == CreatesInTurn(b.storage, b.ciphers, SubSeq(during, k + 1, Len(during)))
    IN [ciphers |-> z.ciphers, sessions |-> z.storage.sessions]

\* C36: create_common_topic and delete_session calls issued concurrently on
\* different topics are linearizable: when the delete_session returns, the
\* AEAD table and the crypto-sessions list are what some sequential order of
\* the same calls produces from the state the delete_session started in.
C36_Linearizable ==
    [][(IsSome(del) /\ Unwrap(del).pc = 4 /\ del' = None) =>
          LET d == Unwrap(del)
          IN \E k \in 0..Len(d.during) :
                Sequentially(d.start, d.topic, d.during, k)
                   = [ciphers |-> ciphers', sessions |-> storage'.sessions]]_vars

\* C37: the dapp answers a session settlement with Success(SessionSettle(true))
\* exactly when the coordinator's settled step succeeded, with the session
\* installed and the waiter fulfilled with it; in every other case the answer
\* is Error(SessionSettle(UserRejected)). Each settlement gets one answer.
C37_SettleReply ==
    [][call'.op = "session_settled" =>
          LET settled == call'.arg[1]
              succeeded == /\ call'.ret = "Ok"
                           /\ installed' = Some(settled)
                           /\ IsSome(waiter')
                           /\ Unwrap(waiter').session = Some(settled)
          IN /\ Len(call'.out) = 1
             /\ (call'.out[1] = ResponseParamsSuccess("SessionSettle")) = succeeded
             /\ ~succeeded =>
                   /\ call'.ret # "Ok"
                   /\ call'.out[1] = ResponseParamsError("SessionSettle", "UserRejected")]_vars

C37_Witness ==
    /\ call.op = "session_settled"
    /\ call.ret = "InstallFailed"
    /\ call.out = <<ResponseParamsError("SessionSettle", "UserRejected")>>
    /\ IsSome(waiter)

C38_WitnessFailed ==
    /\ call.op = "register_pk_key"
    /\ call.ret = "NonExistingPairing"
    /\ ~IsSome(registering)
    /\ relay_subs = {}

\* The store has a record besides the pairing: a session list, a controller
\* key or a settlement.
Leftovers(st) ==
    \/ IsSome(st.sessions)
    \/ \E t \in Topics : IsSome(st.key[t]) \/ IsSome(st.settlement[t])

\* C39: Cipher::new over a store without a persisted pairing returns Ok with
\* an empty cipher over an empty store: every record is cleared, no AEAD key
\* is registered, the pairing map is empty and pairing() is None.
C39_NewWithoutPairingIsEmpty ==
    [][(call'.op = "new" /\ call' # call /\ ~IsSome(Pairing(storage)))
          => /\ call'.ret = "Ok"
             /\ storage' = EmptyStorage
             /\ ~Leftovers(storage')
             /\ subscriptions(ciphers') = {}
             /\ pairing' = EmptyMap
             /\ Pairing(storage') = None]_vars

\* A Cipher was built over a store that had settlement records and no
\* pairing, and is empty.
C39_Witness ==
    /\ call.op = "new"
    /\ call.ret = "Ok"
    /\ call.before.settled > 0
    /\ call.before.keys = 0
    /\ storage = EmptyStorage
    /\ ciphers = EmptyMap
=============================================================================
